---- MODULE Spec2Model ----
(***************************************************************************)
(* State-machine model of the yolotext dataset tool (package main).        *)
(*                                                                         *)
(* The repository holds two builds of the same program: src/main.go and    *)
(* src/unnamed/part_000 (an earlier build without the per-task recover and *)
(* without the directory check).  The variable "build" says which of the   *)
(* two is running; line numbers in comments are those of src/main.go       *)
(* unless part_000 is named.                                               *)
(***************************************************************************)
EXTENDS Integers, Sequences, FiniteSets, TLC

VARIABLES
    build,      \* "main" (src/main.go) or "part000" (src/unnamed/part_000)
    pc,         \* position of the run goroutine started by btnRun
    total,      \* len(tasks) after the scan
    doProc,     \* checkEnableProc.Checked
    limit,      \* number of tokens in the channel limit (capacity 4)
    wg,         \* counter of the sync.WaitGroup
    next,       \* loop index i of the dispatch loop
    wpc,        \* wpc[i]: position of the worker goroutine of task index i
    wsub,       \* wsub[i]: the subset argument of worker i
    img,        \* img[i]: outcome of worker i's image step
    lbl,        \* lbl[i]: outcome of worker i's label step
    panicking,  \* panicking[i]: worker i unwinds with an unrecovered panic
    progress,   \* numerator of the last progressBar.SetValue (value = progress/total)
    manifest,   \* number of os.WriteFile calls for data.yaml
    dialogs,    \* the dialog shown by the run, "" when none
    crashed,    \* the process was terminated by an unrecovered panic
    faults,     \* number of steps so far where the environment left the plain case
    config,     \* what the form holds when btnRun is pressed
    trainR,     \* entryTrain.Text
    valR,       \* entryVal.Text
    tasks,      \* the slice tasks: a sequence of source-file ids
    trainC,     \* int(float64(total) * trainR)
    valC,       \* int(float64(total) * valR)
    dirs,       \* dirs.images, dirs.labels: the subsets whose directory exists
    maxKB,      \* strconv.Atoi(entryKB.Text)
    files,      \* number of image files in the source directories
    inp,        \* inp[i]: where task i's files and environment leave the plain case
    enc,        \* a call of SmartCompress on its own: its arguments and its result
    conv,       \* a call of ConvertJsonToYolo on its own: its arguments and its result
    classes,    \* the class list of the form, clsMap and the names of data.yaml
    found,      \* the image files of the source directories and their destinations
    edit,       \* the label file edited from the preview window
    runs        \* the runs started by the clicks on the Run button

vars == <<build, pc, total, doProc, limit, wg, next, wpc, wsub, img, lbl,
          panicking, progress, manifest, dialogs, crashed, faults, config,
          trainR, valR, tasks, trainC, valC, dirs, maxKB, files, inp,
          enc, conv, classes, found, edit, runs>>

(***************************************************************************)
(* Bounds of the model.                                                    *)
(***************************************************************************)
\* Largest number of image files a scan finds in a run of the whole pipeline.
MaxTasks == 5

\* Largest number of steps of one run in which the environment leaves the
\* plain case (a file that does not decode, a missing or malformed annotation,
\* a failing write or mkdir, a runtime fault).
MaxFaults == 1

\* Largest seed of the random source of a run of the whole pipeline.
MaxSeed == 0

\* The source files of a run that may be damaged or hit a fault are the first
\* MaxDamaged ones the scan finds.
MaxDamaged == 2

\* Largest number of image files of a partition looked at on its own, and the
\* largest seed of its shuffle.
MaxPartTasks == 90

MaxPartSeed == 1

\* Largest number of image files of a run looked at with progressBar.SetValue
\* as a call that takes time.
MaxSharedTasks == 3

\* An annotation file handed to ConvertJsonToYolo on its own holds at most
\* MaxShapes shapes and MaxLabels labels, with pixel coordinates 0 .. MaxCoord.
MaxShapes == 2

MaxLabels == 1

MaxCoord == 2

\* Largest number of characters of the class list of the form looked at on
\* its own.
MaxClassText == 5

\* Largest seed of the shuffle of a run whose destinations are looked at on
\* their own.
MaxFoundSeed == 2

\* Largest number of characters of a label file edited from the preview.
MaxFileText == 5

\* Largest number of clicks on Run, and of image files of the runs they
\* start.
MaxClicks == 2

MaxClickTasks == 5

\* Largest budget (in KB) handed to SmartCompress looked at on its own.
MaxEncKB == 4

\* The digits after the point of "%.6f" (main.go 115).
Decimals == 6

\* cap(limit) of "limit := make(chan struct{}, 4)" (main.go 656).
Capacity == 4

Subsets == {"train", "val", "test"}

(***************************************************************************)
(* float64 arithmetic of "int(float64(total) * trainR)" (main.go 653-654). *)
(* A float64 is a record [neg, m, e] of value (-1)^neg * m * 2^e with      *)
(* m < 2^53.  m is a little-endian sequence of limbs in base 2^15, because *)
(* a 53-bit mantissa does not fit the integers TLC computes with.          *)
(***************************************************************************)
LimbBase == 2^15

MantBits == 53

RECURSIVE Pow2(_)
Pow2(n) == IF n = 0 THEN 1 ELSE 2 * Pow2(n - 1)

\* Drop the zero limbs at the most significant end.
RECURSIVE BNorm(_)
BNorm(a) ==
    IF a = <<>> THEN <<>>
    ELSE IF a[Len(a)] = 0 THEN BNorm(SubSeq(a, 1, Len(a) - 1))
    ELSE a

\* a * k + carry, for a small k.
RECURSIVE BMulCarry(_, _, _)
BMulCarry(a, k, carry) ==
    IF a = <<>>
    THEN (IF carry = 0 THEN <<>> ELSE <<carry>>)
    ELSE LET t == a[1] * k + carry
         IN  <<t % LimbBase>> \o BMulCarry(Tail(a), k, t \div LimbBase)

BMulSmall(a, k) == BNorm(BMulCarry(a, k, 0))

\* Long division of a by a small d, most significant limb first:
\* [q |-> quotient limbs (little-endian), r |-> remainder].
RECURSIVE BDivRem(_, _)
BDivRem(a, d) ==
    IF a = <<>> THEN [q |-> <<>>, r |-> 0]
    ELSE LET hi == BDivRem(Tail(a), d)
             t  == hi.r * LimbBase + a[1]
         IN  [q |-> <<t \div d>> \o hi.q, r |-> t % d]

RECURSIVE BitLenInt(_)
BitLenInt(n) == IF n = 0 THEN 0 ELSE 1 + BitLenInt(n \div 2)

BBitLen(a) ==
    LET b == BNorm(a)
    IN  IF b = <<>> THEN 0 ELSE 15 * (Len(b) - 1) + BitLenInt(b[Len(b)])

BAddOne(a) == BNorm(BMulCarry(a, 1, 1))

BIsOdd(a) == a # <<>> /\ a[1] % 2 = 1

\* floor(a / 2^n)
RECURSIVE BShr(_, _)
BShr(a, n) ==
    IF a = <<>> THEN <<>>
    ELSE IF n >= 15 THEN BShr(Tail(a), n - 15)
    ELSE BNorm(BDivRem(a, Pow2(n)).q)

\* The integer a limb sequence stands for (used on values below 2^30 only).
RECURSIVE BToInt(_)
BToInt(a) == IF a = <<>> THEN 0 ELSE a[1] + LimbBase * BToInt(Tail(a))

FloatZero == [neg |-> FALSE, m |-> <<>>, e |-> 0]

\* float64(n) * f for an integer 0 <= n < 2^14: the exact product rounded to
\* 53 bits, ties to even (IEEE 754 round-to-nearest-even, the Go default).
MulIntFloat(n, f) ==
    LET P == BMulSmall(f.m, n)
        s == BBitLen(P) - MantBits
    IN  IF P = <<>> THEN FloatZero
        ELSE IF s <= 0 THEN [neg |-> f.neg, m |-> P, e |-> f.e]
        ELSE LET d    == BDivRem(P, Pow2(s))
                 q    == BNorm(d.q)
                 up   == 2 * d.r > Pow2(s) \/ (2 * d.r = Pow2(s) /\ BIsOdd(q))
             IN  [neg |-> f.neg, m |-> IF up THEN BAddOne(q) ELSE q, e |-> f.e + s]

\* int(x) of Go: truncation toward zero (only values with e <= 0 occur).
TruncToInt(f) ==
    LET a == BToInt(BShr(f.m, 0 - f.e))
    IN  IF f.neg THEN 0 - a ELSE a

\* The texts typed into entryTrain / entryVal.
RatioTexts ==
    {"0", "0.1", "0.2", "0.3", "0.5", "0.6", "0.7", "0.8", "1", "1.5", "-0.5", "x"}

\* strconv.ParseFloat(text, 64): the float64 nearest to the decimal; the error
\* is dropped by the caller and the value is then 0 (main.go 598-599).
ParseFloat(text) ==
    CASE text = "0.1"  -> [neg |-> FALSE, m |-> <<6554, 13107, 26214, 204>>, e |-> -56]
      [] text = "0.2"  -> [neg |-> FALSE, m |-> <<6554, 13107, 26214, 204>>, e |-> -55]
      [] text = "0.3"  -> [neg |-> FALSE, m |-> <<13107, 26214, 19660, 153>>, e |-> -54]
      [] text = "0.5"  -> [neg |-> FALSE, m |-> <<0, 0, 0, 128>>, e |-> -53]
      [] text = "0.6"  -> [neg |-> FALSE, m |-> <<13107, 26214, 19660, 153>>, e |-> -53]
      [] text = "0.7"  -> [neg |-> FALSE, m |-> <<26214, 19660, 6553, 179>>, e |-> -53]
      [] text = "0.8"  -> [neg |-> FALSE, m |-> <<6554, 13107, 26214, 204>>, e |-> -53]
      [] text = "1"    -> [neg |-> FALSE, m |-> <<0, 0, 0, 128>>, e |-> -52]
      [] text = "1.5"  -> [neg |-> FALSE, m |-> <<0, 0, 0, 192>>, e |-> -52]
      [] text = "-0.5" -> [neg |-> TRUE,  m |-> <<0, 0, 0, 128>>, e |-> -53]
      [] OTHER         -> FloatZero

\* The decimal number a ratio text denotes, as a fraction in tenths.
Tenths(text) ==
    CASE text = "0.1" -> 1  [] text = "0.2" -> 2  [] text = "0.3" -> 3
      [] text = "0.5" -> 5  [] text = "0.6" -> 6  [] text = "0.7" -> 7
      [] text = "0.8" -> 8  [] text = "1" -> 10   [] text = "1.5" -> 15
      [] text = "-0.5" -> -5 [] OTHER -> 0

\* trainC := int(float64(total) * trainR), valC likewise (main.go 653-654).
SubsetCount(n, text) == TruncToInt(MulIntFloat(n, ParseFloat(text)))

\* The counts of the task lists a run can have, worked out once.
RunCounts == [n \in 0 .. MaxTasks |-> [text \in RatioTexts |-> SubsetCount(n, text)]]


(***************************************************************************)
(* SmartCompress (main.go 37-57).  An image is what the encoder sees of    *)
(* it: whether jpeg.Encode accepts it, and the number of bytes             *)
(* jpeg.Encode produces at each quality.  fsOK says whether the output     *)
(* path can be created and written.  The result: the error outcome, the    *)
(* length of the file written (-1 when no complete file was written), the  *)
(* quality it was encoded at and the number of jpeg.Encode calls.          *)
(***************************************************************************)
StartQuality == 95

MinQuality == 20

QualityStep == 5

BytesPerKB == 1024

Qualities == {q \in MinQuality .. StartQuality : q % QualityStep = 0}

\* A budget read in the wrong unit: the size is brought down to megabytes.
FitsMegabytes(size, kb) == (size \div BytesPerKB) \div BytesPerKB <= kb

\* "buf.Len()/1024 <= maxKB" (main.go 46).
Fits(size, kb) == size \div BytesPerKB <= kb

RECURSIVE CompressFrom(_, _, _, _, _)
CompressFrom(image, kb, fsOK, quality, calls) ==
    IF quality >= MinQuality
    THEN IF ~image.encodable
         THEN [err |-> TRUE, len |-> -1, quality |-> quality, calls |-> calls + 1]
         ELSE IF Fits(image.size[quality], kb)
         THEN IF fsOK
              THEN [err |-> FALSE, len |-> image.size[quality],
                    quality |-> quality, calls |-> calls + 1]
              ELSE [err |-> TRUE, len |-> -1, quality |-> quality, calls |-> calls + 1]
         ELSE CompressFrom(image, kb, fsOK, quality - QualityStep, calls + 1)
    ELSE IF ~fsOK
         THEN [err |-> TRUE, len |-> -1, quality |-> MinQuality, calls |-> calls]
         ELSE IF ~image.encodable
         THEN [err |-> TRUE, len |-> -1, quality |-> MinQuality, calls |-> calls + 1]
         ELSE [err |-> FALSE, len |-> image.size[MinQuality],
               quality |-> MinQuality, calls |-> calls + 1]

\* An encoder that gives up with an error when no quality meets the budget.
SmartCompressStrict(image, kb, fsOK) ==
    LET r == CompressFrom(image, kb, fsOK, StartQuality, 0)
    IN  IF ~r.err /\ ~Fits(r.len, kb) THEN [r EXCEPT !.err = TRUE, !.len = -1] ELSE r

\* An encoder that starts its search at the floor quality.
SmartCompressFromFloor(image, kb, fsOK) == CompressFrom(image, kb, fsOK, MinQuality, 0)

SmartCompress(image, kb, fsOK) == CompressFrom(image, kb, fsOK, StartQuality, 0)

\* An image whose encoding has base bytes at quality 20 and grows by step bytes
\* per quality level, except that it is bump bytes larger (smaller, for a
\* negative bump) at quality bumpAt: encoded size is not monotonic in the
\* quality in general.
Image(encodable, base, step, bumpAt, bump) ==
    [encodable |-> encodable,
     size |-> [q \in Qualities |->
                 base + step * ((q - MinQuality) \div QualityStep)
                      + (IF q = bumpAt THEN bump ELSE 0)]]

\* DirectCopy (main.go 60-80): nil when the source can be read and the
\* destination created and written.
DirectCopy(srcOK, fsOK) == [err |-> ~(srcOK /\ fsOK)]

(***************************************************************************)
(* The partition: shuffle (main.go 641-642) and subset by index (661-666). *)
(***************************************************************************)
Swap(seq, a, b) == [seq EXCEPT ![a] = seq[b], ![b] = seq[a]]

\* rand.Shuffle(n, swap): for i := n-1; i > 0; i-- { j := Intn(i+1); swap(i, j) }.
\* The random source is the sequence of its draws; seed encodes that sequence
\* (the draw for i is the next digit of seed in base i+1).  Positions are
\* 0-based in the code and 1-based in the sequence.
RECURSIVE ShuffleFrom(_, _, _)
ShuffleFrom(seq, i, seed) ==
    IF i <= 0 THEN seq
    ELSE LET j == seed % (i + 1)
         IN  ShuffleFrom(Swap(seq, i + 1, j + 1), i - 1, seed \div (i + 1))

Shuffle(seq, seed) == ShuffleFrom(seq, Len(seq) - 1, seed)

\* sub := "test"; if i < trainC {"train"} else if i < trainC+valC {"val"}.
SubsetOf(i, tc, vc) ==
    IF i < tc THEN "train"
    ELSE IF i < tc + vc THEN "val"
    ELSE "test"

(***************************************************************************)
(* The run: btnRun's handler and the goroutine it starts (main.go 576-723, *)
(* part_000 596-706).                                                      *)
(***************************************************************************)
Idx == 0 .. (total - 1)

\* "defer func() { recover() }()" exists in main.go (673), not in part_000.
Recovers(b) == b = "main"

\* The images MkdirAll result is checked in main.go (646-648), not in part_000 (637).
ChecksMkdir(b) == b = "main"

\* entryKB.SetText("500") (main.go 551).
DefaultKB == 500

\* No call of SmartCompress on its own is under way.
NoCall == [at |-> "none"]

\* The images a run of the whole pipeline decodes: one that compresses under
\* the default budget at once, one that never fits it.
RunImages == {Image(TRUE, 40000, 1000, 0, 0), Image(TRUE, 600000, 1000, 0, 0)}

\* No run goroutine has been started yet.
NoRun ==
    /\ total = 0
    /\ trainC = 0
    /\ valC = 0
    /\ limit = 0
    /\ wg = 0
    /\ next = 0
    /\ wpc = <<>>
    /\ wsub = <<>>
    /\ img = <<>>
    /\ lbl = <<>>
    /\ panicking = <<>>
    /\ progress = 0
    /\ manifest = 0
    /\ dialogs = ""
    /\ crashed = FALSE
    /\ faults = 0
    /\ dirs = [images |-> {}, labels |-> {}]
    /\ inp = <<>>

\* The program after construction of the window (main.go 545-551): the form
\* holds the default ratios and budget; the user has filled in the rest.
InitRun(builds) ==
    /\ build \in builds
    /\ files \in 0 .. MaxTasks
    /\ pc = "idle"
    /\ config \in {"ok", "nosrc", "noout", "nocls"}
    /\ doProc \in BOOLEAN
    /\ trainR = "0.8"
    /\ valR = "0.2"
    /\ maxKB = DefaultKB
    /\ enc = NoCall
    /\ conv = NoCall
    /\ classes = NoCall
    /\ found = NoCall
    /\ tasks = <<>>
    /\ edit = NoCall
    /\ runs = <<>>
    /\ NoRun

\* A validation that forgets the class list.
ConfigOKNoClasses(c) == c \in {"ok", "nocls"}

\* The validation of btnRun (main.go 578-589, part_000 597): listData is not
\* empty, entryOut.Text and entryClasses.Text are not "".
ConfigOK(c) == c = "ok"

\* btnRun's handler (main.go 576-605, part_000 596-613): validation, reset of
\* the progress bar, start of the run goroutine.
BtnRun ==
    /\ pc = "idle"
    /\ ~crashed
    /\ IF ~ConfigOK(config)
       THEN /\ dialogs' = "error:config"
            /\ pc' = "rejected"
            /\ UNCHANGED progress
       ELSE /\ progress' = 0
            /\ pc' = "scan"
            /\ UNCHANGED dialogs
    /\ UNCHANGED <<runs, edit, conv, classes, found, enc, maxKB, files, inp, build, total, doProc, limit, wg, next, wpc, wsub, img, lbl,
                   panicking, manifest, crashed, faults, config, trainR, valR,
                   tasks, trainC, valC, dirs>>

\* The scan of the source directories (main.go 614-639, part_000 616-631):
\* one task per image file, in the order found; with none the run returns.
Scan ==
    /\ pc = "scan"
    /\ ~crashed
    /\ tasks' = [k \in 1 .. files |-> k]
    /\ IF files = 0
       THEN /\ pc' = "nopics"
            /\ dialogs' = IF build = "main" THEN "info:nopics" ELSE dialogs
       ELSE /\ pc' = "shuffle"
            /\ UNCHANGED dialogs
    /\ UNCHANGED <<runs, edit, conv, classes, found, enc, maxKB, files, inp, build, total, doProc, limit, wg, next, wpc, wsub, img, lbl,
                   panicking, progress, manifest, crashed, faults, config,
                   trainR, valR, trainC, valC, dirs>>

\* r.Shuffle(len(tasks), ...) (main.go 641-642).
ShuffleTasks ==
    /\ pc = "shuffle"
    /\ ~crashed
    /\ \E seed \in 0 .. MaxSeed : tasks' = Shuffle(tasks, seed)
    /\ pc' = "mkdir"
    /\ UNCHANGED <<runs, edit, conv, classes, found, enc, maxKB, files, inp, build, total, doProc, limit, wg, next, wpc, wsub, img, lbl,
                   panicking, progress, manifest, dialogs, crashed, faults,
                   config, trainR, valR, trainC, valC, dirs>>

SubsetOrder == <<"train", "val", "test">>

\* The position in the loop of the first subset outside im, and the subsets
\* the loop has handled before it gets to position k.
FirstMissing(im) ==
    CHOOSE k \in 1 .. 4 : /\ \A j \in 1 .. (k - 1) : SubsetOrder[j] \in im
                          /\ (k = 4 \/ SubsetOrder[k] \notin im)

Before(k) == {SubsetOrder[j] : j \in 1 .. (k - 1)}

\* The MkdirAll loop (main.go 645-650, part_000 636-639).  im and lb are the
\* subsets whose images/ and labels/ directory gets created.  main.go panics on
\* the first images/ failure, and the run goroutine's deferred recover
\* (608-612) turns that into an error dialog; a labels/ failure is ignored, and
\* part_000 ignores both.
MkDirs ==
    /\ pc = "mkdir"
    /\ ~crashed
    /\ \E im \in SUBSET Subsets, lb \in SUBSET Subsets :
        /\ faults + Cardinality(Subsets \ im) + Cardinality(Subsets \ lb) <= MaxFaults
        /\ faults' = faults + Cardinality(Subsets \ im) + Cardinality(Subsets \ lb)
        /\ IF ChecksMkdir(build) /\ im # Subsets
           THEN /\ pc' = "aborted"
                /\ dialogs' = "error:panic"
                /\ dirs' = [images |-> im \cap Before(FirstMissing(im)),
                            labels |-> lb \cap Before(FirstMissing(im))]
           ELSE /\ pc' = "prepare"
                /\ dirs' = [images |-> im, labels |-> lb]
                /\ UNCHANGED dialogs
    /\ UNCHANGED <<runs, edit, conv, classes, found, enc, maxKB, files, inp, build, total, doProc, limit, wg, next, wpc, wsub, img, lbl,
                   panicking, progress, manifest, crashed, config, trainR, valR,
                   tasks, trainC, valC>>

\* total, trainC, valC, wg and limit of the run (main.go 652-656).
Prepare ==
    /\ pc = "prepare"
    /\ ~crashed
    /\ total' = Len(tasks)
    /\ trainC' = RunCounts[Len(tasks)][trainR]
    /\ valC' = RunCounts[Len(tasks)][valR]
    /\ wg' = 0
    /\ limit' = 0
    /\ next' = 0
    /\ wpc' = [i \in 0 .. (Len(tasks) - 1) |-> "unborn"]
    /\ wsub' = [i \in 0 .. (Len(tasks) - 1) |-> "none"]
    /\ img' = [i \in 0 .. (Len(tasks) - 1) |-> "none"]
    /\ lbl' = [i \in 0 .. (Len(tasks) - 1) |-> "none"]
    /\ panicking' = [i \in 0 .. (Len(tasks) - 1) |-> FALSE]
    /\ inp' = [i \in 0 .. (Len(tasks) - 1) |-> {}]
    /\ pc' = "dispatch"
    /\ UNCHANGED <<runs, edit, conv, classes, found, enc, maxKB, files, build, doProc, progress, manifest, dialogs, crashed, faults,
                   config, trainR, valR, tasks, dirs>>

\* A gate that lets one task too many in.
GateOffByOne(n) == n <= Capacity

\* A channel made without capacity: a send with no receiver never goes through.
GateUnbuffered(n) == FALSE

\* The gate: "limit <- struct{}{}" goes through when the channel has room.
GateOpen(n) == n < Capacity

\* One turn of the dispatch loop (main.go 658-668, 707): take a slot, wg.Add(1),
\* pick the subset by index, start the worker; after the last turn the run
\* goroutine is at wg.Wait().
Dispatch ==
    /\ pc = "dispatch"
    /\ ~crashed
    /\ next < total
    /\ GateOpen(limit)
    /\ limit' = limit + 1
    /\ wg' = wg + 1
    /\ wsub' = [wsub EXCEPT ![next] = SubsetOf(next, trainC, valC)]
    /\ wpc' = [wpc EXCEPT ![next] = "work"]
    /\ next' = next + 1
    /\ pc' = IF next + 1 = total THEN "wait" ELSE "dispatch"
    /\ UNCHANGED <<runs, edit, conv, classes, found, enc, maxKB, files, inp, build, total, doProc, img, lbl, panicking, progress, manifest,
                   dialogs, crashed, faults, config, trainR, valR, tasks, trainC,
                   valC, dirs>>

\* What a worker's steps left behind.
DimsKnown(i) == img[i] \in {"ok", "writeErr"}

ImageWritten(i) == img[i] = "ok"

LabelWritten(i) == lbl[i] = "ok"

\* A fault that takes the worker past the deferred "<-limit".
UnwindPastRelease(i) ==
    /\ wpc' = [wpc EXCEPT ![i] = "wgdone"]
    /\ panicking' = [panicking EXCEPT ![i] = ~Recovers(build)]

\* A fault in a worker: with the deferred recover the worker goes on to its
\* other deferred calls; without it the panic stays in flight while they run.
Unwind(i) ==
    /\ wpc' = [wpc EXCEPT ![i] = "release"]
    /\ panicking' = [panicking EXCEPT ![i] = ~Recovers(build)]

\* The ways the files and the environment of one task leave the plain case:
\* the source image does not open or decode, the image destination cannot be
\* written, the annotation file is missing or is not valid JSON, the label
\* destination cannot be written, a runtime fault (panic) is raised in the
\* image step or in the label step.
Deviations ==
    {"corrupt", "imgWrite", "noJson", "badJson", "lblWrite", "imgFault", "lblFault"}

\* An image step that uses the decoded image without looking at the error of
\* the decode: a nil image is dereferenced.
ImageOutcomeUnchecked(faulty, decodes, res) ==
    IF faulty \/ ~decodes THEN "panic"
    ELSE IF res.err THEN "writeErr"
    ELSE "ok"

DeviationSets == {dev \in SUBSET Deviations : Cardinality(dev) <= MaxFaults}

\* The image step of a worker (main.go 676-698, part_000 662-680): open and
\* decode (DecodeConfig when processing is off); on success keep the dimensions
\* and write the image with SmartCompress or DirectCopy, whose result is dropped.
ImageOutcome(faulty, decodes, res) ==
    IF faulty THEN "panic"
    ELSE IF ~decodes THEN "decodeErr"
    ELSE IF res.err THEN "writeErr"
    ELSE "ok"

\* A label step without the "imgW > 0" guard.
HasDimsUnguarded(imgOut) == TRUE

\* imgW > 0 after the image step.
HasDims(imgOut) == imgOut \in {"ok", "writeErr"}

\* A label step that writes the label file whatever the conversion returned.
LabelOutcomeUnchecked(imgOut, json, faulty, fsOK) ==
    IF imgOut = "panic" THEN "none"
    ELSE IF json = "missing" THEN "nojson"
    ELSE IF imgOut \notin {"ok", "writeErr"} THEN "skipped"
    ELSE IF faulty THEN "panic"
    ELSE IF ~fsOK THEN "writeErr"
    ELSE "ok"

\* The label step of a worker (main.go 700-705, part_000 683-688): when the
\* annotation file exists and imgW > 0, convert it and, if that gave no error,
\* write the label file (the result of the write is dropped).
LabelOutcome(imgOut, json, faulty, fsOK) ==
    IF imgOut = "panic" THEN "none"
    ELSE IF json = "missing" THEN "nojson"
    ELSE IF ~HasDims(imgOut) THEN "skipped"
    ELSE IF faulty THEN "panic"
    ELSE IF json = "malformed" THEN "parseErr"
    ELSE IF ~fsOK THEN "writeErr"
    ELSE "ok"

\* The image writer of a task in subset sub with deviations dev.
WriteImage(dev, sub, image) ==
    LET fsOK == "imgWrite" \notin dev /\ sub \in dirs.images
    IN  IF doProc
        THEN SmartCompress(image, maxKB, fsOK)
        ELSE DirectCopy("corrupt" \notin dev, fsOK)

\* The value worker idx hands to progressBar.SetValue, times total
\* (main.go 706: float64(idx+1) / float64(total)).
ProgressOf(idx) == idx + 1

\* The body of worker i (main.go 675-706, part_000 661-689): the image step,
\* the label step and progressBar.SetValue.  The two file steps read and write
\* only the files of task i, so the body is one step that ends with the one
\* access to shared state; a runtime fault in a file step unwinds to the
\* deferred calls and skips SetValue.
WorkUpTo(i, entered) ==
    /\ i \in Idx
    /\ wpc[i] = "work"
    /\ ~crashed
    /\ \E dev \in DeviationSets, image \in RunImages :
        LET imgOut == ImageOutcome("imgFault" \in dev, "corrupt" \notin dev,
                                   WriteImage(dev, wsub[i], image))
            json   == IF "noJson" \in dev THEN "missing"
                      ELSE IF "badJson" \in dev THEN "malformed"
                      ELSE "good"
            lblOut == LabelOutcome(imgOut, json, "lblFault" \in dev,
                                   "lblWrite" \notin dev /\ wsub[i] \in dirs.labels)
        IN  /\ dev # {} => tasks[i + 1] <= MaxDamaged
            /\ faults + Cardinality(dev) <= MaxFaults
            /\ faults' = faults + Cardinality(dev)
            /\ inp' = [inp EXCEPT ![i] = dev]
            /\ img' = [img EXCEPT ![i] = imgOut]
            /\ lbl' = [lbl EXCEPT ![i] = lblOut]
            /\ IF imgOut = "panic" \/ lblOut = "panic"
               THEN /\ Unwind(i)
                    /\ UNCHANGED progress
               ELSE IF entered
               THEN /\ wpc' = [wpc EXCEPT ![i] = "setvalue"]
                    /\ UNCHANGED <<progress, panicking>>
               ELSE /\ progress' = ProgressOf(i)
                    /\ wpc' = [wpc EXCEPT ![i] = "release"]
                    /\ UNCHANGED panicking
    /\ UNCHANGED <<runs, edit, conv, classes, found, enc, maxKB, files, build, pc, total, doProc, limit, wg, next, wsub,
                   manifest, dialogs, crashed, config, trainR, valR, tasks, trainC,
                   valC, dirs>>

\* The body with progressBar.SetValue as its last, indivisible step.
Work(i) == WorkUpTo(i, FALSE)

\* The body up to the call of progressBar.SetValue: the worker is inside the
\* call, which the program makes without holding any lock (main.go 706).
EnterSetValue(i) == WorkUpTo(i, TRUE)

\* The store of the new value at the end of progressBar.SetValue.
SetValue(i) ==
    /\ i \in Idx
    /\ wpc[i] = "setvalue"
    /\ ~crashed
    /\ progress' = ProgressOf(i)
    /\ wpc' = [wpc EXCEPT ![i] = "release"]
    /\ UNCHANGED <<runs, edit, conv, classes, found, enc, maxKB, files, inp, build, pc, total, doProc, limit, wg, next, wsub,
                   img, lbl, panicking, manifest, dialogs, crashed, faults, config,
                   trainR, valR, tasks, trainC, valC, dirs>>

\* The deferred "<-limit" (main.go 670).
Release(i) ==
    /\ i \in Idx
    /\ wpc[i] = "release"
    /\ ~crashed
    /\ limit' = limit - 1
    /\ wpc' = [wpc EXCEPT ![i] = "wgdone"]
    /\ UNCHANGED <<runs, edit, conv, classes, found, enc, maxKB, files, inp, build, pc, total, doProc, wg, next, wsub, img, lbl,
                   panicking, progress, manifest, dialogs, crashed, faults, config,
                   trainR, valR, tasks, trainC, valC, dirs>>

\* The deferred wg.Done() (main.go 669), the last deferred call: after it the
\* goroutine ends, or, with a panic still in flight, the runtime is about to
\* end the process.
Done(i) ==
    /\ i \in Idx
    /\ wpc[i] = "wgdone"
    /\ ~crashed
    /\ wg' = wg - 1
    /\ wpc' = [wpc EXCEPT ![i] = IF panicking[i] THEN "fatal" ELSE "finished"]
    /\ UNCHANGED <<runs, edit, conv, classes, found, enc, maxKB, files, inp, build, pc, total, doProc, limit, next, wsub, img, lbl,
                   panicking, progress, manifest, dialogs, crashed, faults, config,
                   trainR, valR, tasks, trainC, valC, dirs>>

\* An unrecovered panic ends the process (part_000 656-690 has no recover).
Crash(i) ==
    /\ i \in Idx
    /\ wpc[i] = "fatal"
    /\ ~crashed
    /\ crashed' = TRUE
    /\ UNCHANGED <<runs, edit, conv, classes, found, enc, maxKB, files, inp, build, pc, total, doProc, limit, wg, next, wpc, wsub,
                   img, lbl, panicking, progress, manifest, dialogs, faults, config,
                   trainR, valR, tasks, trainC, valC, dirs>>

\* A barrier that does not wait.
BarrierAbsent(n) == TRUE

\* wg.Wait() blocks until the counter is zero.
BarrierOpen(n) == n = 0

\* wg.Wait() returns (main.go 709).
Wait ==
    /\ pc = "wait"
    /\ ~crashed
    /\ BarrierOpen(wg)
    /\ pc' = "manifest"
    /\ UNCHANGED <<runs, edit, conv, classes, found, enc, maxKB, files, inp, build, total, doProc, limit, wg, next, wpc, wsub, img,
                   lbl, panicking, progress, manifest, dialogs, crashed, faults,
                   config, trainR, valR, tasks, trainC, valC, dirs>>

\* os.WriteFile(data.yaml) (main.go 711-719).
WriteManifest ==
    /\ pc = "manifest"
    /\ ~crashed
    /\ manifest' = manifest + 1
    /\ pc' = "report"
    /\ UNCHANGED <<runs, edit, conv, classes, found, enc, maxKB, files, inp, build, total, doProc, limit, wg, next, wpc, wsub, img,
                   lbl, panicking, progress, dialogs, crashed, faults, config,
                   trainR, valR, tasks, trainC, valC, dirs>>

\* logFunc(">>> 完成！") and the completion dialog (main.go 721-722).
Report ==
    /\ pc = "report"
    /\ ~crashed
    /\ dialogs' = "info:done"
    /\ pc' = "done"
    /\ UNCHANGED <<runs, edit, conv, classes, found, enc, maxKB, files, inp, build, total, doProc, limit, wg, next, wpc, wsub, img,
                   lbl, panicking, progress, manifest, crashed, faults, config,
                   trainR, valR, tasks, trainC, valC, dirs>>

Worker(i) == Work(i) \/ Release(i) \/ Done(i)

Runner == BtnRun \/ Scan \/ ShuffleTasks \/ MkDirs \/ Prepare \/ Dispatch \/ Wait
          \/ WriteManifest \/ Report

\* src/main.go: a worker's panic is recovered, so no goroutine ends the process.
Next == Runner \/ \E i \in 0 .. (MaxTasks - 1) : Worker(i)

Init == InitRun({"main"})

Spec == Init /\ [][Next]_vars

\* Both builds of the program.
NextBuilds == Runner \/ \E i \in 0 .. (MaxTasks - 1) : (Worker(i) \/ Crash(i))

InitBuilds == InitRun({"main", "part000"})

SpecBuilds == InitBuilds /\ [][NextBuilds]_vars

\* The scheduler runs every goroutine that can take a step: the run goroutine
\* and each worker.
Fairness == WF_vars(Runner) /\ \A i \in 0 .. (MaxTasks - 1) : WF_vars(Worker(i))

FairSpec == Init /\ [][Next]_vars /\ Fairness

(***************************************************************************)
(* The run of src/main.go with progressBar.SetValue as a call that takes   *)
(* time: a worker enters it, then stores its value.                        *)
(***************************************************************************)
WorkerShared(i) == EnterSetValue(i) \/ SetValue(i) \/ Release(i) \/ Done(i)

NextShared == Runner \/ \E i \in 0 .. (MaxTasks - 1) : WorkerShared(i)

InitShared == InitRun({"main"}) /\ files <= MaxSharedTasks

SpecShared == InitShared /\ [][NextShared]_vars

(***************************************************************************)
(* The partition on its own (main.go 641-666): the shuffle, the two counts *)
(* and the subset of every index, for task lists longer and ratios more    *)
(* varied than a run with its workers can be explored with.                *)
(***************************************************************************)
\* The run goroutine after the scan found files image files.
InitPartition ==
    /\ build = "main"
    /\ pc = "partition"
    /\ files \in 0 .. MaxPartTasks
    /\ tasks = [k \in 1 .. files |-> k]
    /\ trainR \in RatioTexts
    /\ valR \in RatioTexts
    /\ config = "ok"
    /\ doProc = TRUE
    /\ maxKB = DefaultKB
    /\ enc = NoCall
    /\ conv = NoCall
    /\ classes = NoCall
    /\ found = NoCall
    /\ edit = NoCall
    /\ runs = <<>>
    /\ NoRun

\* Shuffle, total/trainC/valC, and the subset the dispatch loop picks for each
\* index i (main.go 641-642, 652-654, 661-666).
Partition ==
    /\ pc = "partition"
    /\ \E seed \in 0 .. MaxPartSeed : tasks' = Shuffle(tasks, seed)
    /\ total' = Len(tasks)
    /\ trainC' = SubsetCount(Len(tasks), trainR)
    /\ valC' = SubsetCount(Len(tasks), valR)
    /\ wsub' = [i \in 0 .. (Len(tasks) - 1) |->
                  SubsetOf(i, SubsetCount(Len(tasks), trainR),
                           SubsetCount(Len(tasks), valR))]
    /\ pc' = "partitioned"
    /\ UNCHANGED <<runs, edit, conv, classes, found, enc, maxKB, files, inp, build, doProc, limit, wg, next, wpc, img, lbl,
                   panicking, progress, manifest, dialogs, crashed, faults, config,
                   trainR, valR, dirs>>

SpecPartition == InitPartition /\ [][Partition]_vars

(***************************************************************************)
(* SmartCompress on its own (main.go 37-57), for images, budgets and       *)
(* output paths of every kind.                                             *)
(***************************************************************************)
EncBases == {500, 1000, 1024, 2048, 3000}

EncSteps == {0, 30, 100}

EncBumps == {0 - 400, 0, 2000}

EncBudgets == (0 - 1) .. MaxEncKB

\* A caller is about to call SmartCompress(img, outPath, maxKB).
InitEnc ==
    /\ build = "main"
    /\ pc = "encoder"
    /\ \E encodable \in BOOLEAN, base \in EncBases, step \in EncSteps,
          bump \in EncBumps, kb \in EncBudgets, fsOK \in BOOLEAN :
          enc = [at |-> "call", image |-> Image(encodable, base, step, 50, bump),
                 kb |-> kb, fsOK |-> fsOK]
    /\ files = 0
    /\ tasks = <<>>
    /\ trainR = "0.8"
    /\ valR = "0.2"
    /\ config = "ok"
    /\ doProc = TRUE
    /\ maxKB = DefaultKB
    /\ conv = NoCall
    /\ classes = NoCall
    /\ found = NoCall
    /\ edit = NoCall
    /\ runs = <<>>
    /\ NoRun

\* The call returns.
Compress ==
    /\ pc = "encoder"
    /\ enc.at = "call"
    /\ enc' = [at |-> "ret", image |-> enc.image, kb |-> enc.kb, fsOK |-> enc.fsOK,
               res |-> SmartCompress(enc.image, enc.kb, enc.fsOK)]
    /\ UNCHANGED <<runs, edit, conv, classes, found, maxKB, files, inp, build, pc, total, doProc, limit, wg, next, wpc, wsub,
                   img, lbl, panicking, progress, manifest, dialogs, crashed, faults,
                   config, trainR, valR, tasks, trainC, valC, dirs>>

EncSpec == InitEnc /\ [][Compress]_vars

(***************************************************************************)
(* ConvertJsonToYolo (main.go 83-147).  Pixel coordinates are whole        *)
(* numbers, so x2 - x1, w / 2.0 and x1 + w/2.0 are exact in float64; the   *)
(* divisions by float64(imgW) and float64(imgH) round, and %.6f rounds the *)
(* rounded quotient to six decimal digits.  A number of a label line is    *)
(* kept as the whole number of millionths it prints.                       *)
(***************************************************************************)
Abs(n) == IF n < 0 THEN 0 - n ELSE n

Min(S) == CHOOSE x \in S : \A y \in S : x <= y

Max(S) == CHOOSE x \in S : \A y \in S : x >= y

RECURSIVE Pow10(_)
Pow10(n) == IF n = 0 THEN 1 ELSE 10 * Pow10(n - 1)

\* The float64 quotient of r0/b continued by binary long division from the
\* remainder r after sig significant bits, the last one being bit: 1 when the
\* 53-bit quotient lies above the exact one, -1 when below, 0 when equal.
RECURSIVE QuotientRounding(_, _, _, _)
QuotientRounding(r, b, sig, bit) ==
    IF r = 0 THEN 0
    ELSE IF sig = MantBits
    THEN IF 2 * r > b THEN 1
         ELSE IF 2 * r < b THEN 0 - 1
         ELSE IF bit = 1 THEN 1 ELSE 0 - 1
    ELSE LET d == IF 2 * r >= b THEN 1 ELSE 0
         IN  QuotientRounding(2 * r - d * b, b,
                              IF sig > 0 \/ d = 1 THEN sig + 1 ELSE 0, d)

\* The first k decimal digits of r/b appended to m, and what is left over.
RECURSIVE DecimalDigits(_, _, _, _)
DecimalDigits(m, r, b, k) ==
    IF k = 0 THEN [m |-> m, r |-> r]
    ELSE DecimalDigits(10 * m + ((10 * r) \div b), (10 * r) % b, b, k - 1)

\* The float64 quotient of a by b > 0 printed with d decimal digits, in
\* millionths.  The digits are those of the exact quotient rounded to nearest
\* unless the exact quotient is half-way between two printed values: then
\* the float64 quotient, which lies above or below it, decides, and a float64
\* quotient that is itself half-way goes to the even digit.
RoundFixed(a, b, d) ==
    LET n    == Abs(a)
        t    == DecimalDigits(n \div b, n % b, b, d)
        dir  == QuotientRounding(n % b, b, BitLenInt(n \div b), (n \div b) % 2)
        up   == IF 2 * t.r > b THEN TRUE
                ELSE IF 2 * t.r < b THEN FALSE
                ELSE IF dir = 0 THEN t.m % 2 = 1
                ELSE dir = 1
        m    == (IF up THEN t.m + 1 ELSE t.m) * Pow10(Decimals - d)
    IN  IF a < 0 THEN 0 - m ELSE m

FormatFixedFive(a, b) == RoundFixed(a, b, 5)

\* fmt.Sprintf("%.6f", a/b) (main.go 115).
FormatFixed(a, b) == RoundFixed(a, b, Decimals)

MappedAlways(label, classMap) == TRUE

\* "id, ok := classMap[label]": ok (main.go 120, 143).
Mapped(label, classMap) == label \in DOMAIN classMap

\* "id, ok := classMap[label]": id, the zero value when the key is absent.
ClassId(label, classMap) == IF label \in DOMAIN classMap THEN classMap[label] ELSE 0

\* A rectangle from the first and the last point of two numbers, taken as its
\* corners in that order.
BoundingBoxInOrder(points) ==
    LET u == {k \in DOMAIN points : Len(points[k]) >= 2}
    IN  IF u = {}
        THEN [sentinel |-> TRUE]
        ELSE [sentinel |-> FALSE,
              x1 |-> points[Min(u)][1], y1 |-> points[Min(u)][2],
              x2 |-> points[Max(u)][1], y2 |-> points[Max(u)][2]]

\* The rectangle around the points of a shape (main.go 121-138).  A point of
\* fewer than two numbers is passed over; with no point taken the rectangle
\* keeps math.MaxFloat64 and -math.MaxFloat64.
BoundingBox(points) ==
    LET u == {k \in DOMAIN points : Len(points[k]) >= 2}
    IN  IF u = {}
        THEN [sentinel |-> TRUE]
        ELSE [sentinel |-> FALSE,
              x1 |-> Min({points[k][1] : k \in u}),
              y1 |-> Min({points[k][2] : k \in u}),
              x2 |-> Max({points[k][1] : k \in u}),
              y2 |-> Max({points[k][2] : k \in u})]

\* A closure that puts the corners in order first, so that no width or
\* height is negative.
AddOrdered(cls, box, imgW, imgH) ==
    IF box.sentinel
    THEN [cls |-> cls, inf |-> TRUE]
    ELSE [cls |-> cls, inf |-> FALSE,
          cx |-> FormatFixed(box.x1 + box.x2, 2 * imgW),
          cy |-> FormatFixed(box.y1 + box.y2, 2 * imgH),
          w  |-> FormatFixed(Abs(box.x2 - box.x1), imgW),
          h  |-> FormatFixed(Abs(box.y2 - box.y1), imgH)]

\* The closure add (main.go 110-117).  From the sentinels, x2 - x1 overflows
\* to -Inf and so does every number of the line.
Add(cls, box, imgW, imgH) ==
    IF box.sentinel
    THEN [cls |-> cls, inf |-> TRUE]
    ELSE [cls |-> cls, inf |-> FALSE,
          cx |-> FormatFixed(box.x1 + box.x2, 2 * imgW),
          cy |-> FormatFixed(box.y1 + box.y2, 2 * imgH),
          w  |-> FormatFixed(box.x2 - box.x1, imgW),
          h  |-> FormatFixed(box.y2 - box.y1, imgH)]

\* The loop over data.Shapes (main.go 119-141).
RECURSIVE ShapeLines(_, _, _, _)
ShapeLines(shapes, imgW, imgH, classMap) ==
    IF shapes = <<>> THEN <<>>
    ELSE LET shape == Head(shapes)
             rest  == ShapeLines(Tail(shapes), imgW, imgH, classMap)
         IN  IF Mapped(shape.label, classMap) /\ Len(shape.points) > 0
             THEN <<Add(ClassId(shape.label, classMap), BoundingBox(shape.points),
                        imgW, imgH)>> \o rest
             ELSE rest

\* The loop over data.Labels (main.go 142-146).
RECURSIVE LabelLines(_, _, _, _)
LabelLines(labels, imgW, imgH, classMap) ==
    IF labels = <<>> THEN <<>>
    ELSE LET l    == Head(labels)
             rest == LabelLines(Tail(labels), imgW, imgH, classMap)
         IN  IF Mapped(l.name, classMap)
             THEN <<Add(ClassId(l.name, classMap),
                        [sentinel |-> FALSE, x1 |-> l.x1, y1 |-> l.y1,
                         x2 |-> l.x2, y2 |-> l.y2], imgW, imgH)>> \o rest
             ELSE rest

\* ConvertJsonToYolo(jsonPath, imgW, imgH, classMap): the lines and the error.
ConvertJsonToYolo(doc, imgW, imgH, classMap) ==
    IF doc.file = "missing" THEN [lines |-> <<>>, err |-> "read"]
    ELSE IF doc.file = "malformed" THEN [lines |-> <<>>, err |-> "json"]
    ELSE [lines |-> ShapeLines(doc.shapes, imgW, imgH, classMap)
                    \o LabelLines(doc.labels, imgW, imgH, classMap),
          err |-> "nil"]

(***************************************************************************)
(* ConvertJsonToYolo on its own: one call on an annotation file.           *)
(***************************************************************************)
LabelNames == {"cat", "dog"}

ClassMaps == {[c \in {} |-> 0], [c \in {"cat"} |-> 0],
              [c \in {"cat", "dog"} |-> IF c = "cat" THEN 0 ELSE 1]}

ImageSizes == {<<1, 2>>, <<100, 100>>, <<128, 320>>, <<3000, 2000>>}

PointLists == {<<>>, << <<1>> >>, << <<0, 1>>, <<2, 0>>, <<1>> >>}

SeqsUpTo(S, n) == UNION {[1 .. k -> S] : k \in 0 .. n}

Documents ==
    {[file |-> "missing"], [file |-> "malformed"]} \cup
    {[file |-> "ok", shapes |-> s, labels |-> l] :
        s \in SeqsUpTo([label : LabelNames, points : PointLists], MaxShapes),
        l \in SeqsUpTo([name : LabelNames, x1 : 0 .. MaxCoord, y1 : 0 .. MaxCoord,
                        x2 : 0 .. MaxCoord, y2 : 0 .. MaxCoord], MaxLabels)}

\* A worker is about to call ConvertJsonToYolo.
InitConvert ==
    /\ build = "main"
    /\ pc = "converter"
    /\ \E doc \in Documents, size \in ImageSizes, classMap \in ClassMaps :
          conv = [at |-> "call", doc |-> doc, imgW |-> size[1], imgH |-> size[2],
                  classMap |-> classMap]
    /\ files = 0
    /\ tasks = <<>>
    /\ trainR = "0.8"
    /\ valR = "0.2"
    /\ config = "ok"
    /\ doProc = TRUE
    /\ maxKB = DefaultKB
    /\ enc = NoCall
    /\ classes = NoCall
    /\ found = NoCall
    /\ edit = NoCall
    /\ runs = <<>>
    /\ NoRun

\* The call returns.
Convert ==
    /\ pc = "converter"
    /\ conv.at = "call"
    /\ conv' = [at |-> "ret", doc |-> conv.doc, imgW |-> conv.imgW,
                imgH |-> conv.imgH, classMap |-> conv.classMap,
                res |-> ConvertJsonToYolo(conv.doc, conv.imgW, conv.imgH,
                                          conv.classMap)]
    /\ UNCHANGED <<runs, edit, enc, classes, found, maxKB, files, inp, build, pc, total, doProc,
                   limit, wg, next, wpc, wsub, img, lbl, panicking, progress, manifest,
                   dialogs, crashed, faults, config, trainR, valR, tasks, trainC,
                   valC, dirs>>

SpecConvert == InitConvert /\ [][Convert]_vars

(***************************************************************************)
(* The label step of a worker on its own (main.go 700-705): os.Stat of the *)
(* annotation file, ConvertJsonToYolo, strings.Join and os.WriteFile.  The *)
(* text handed to os.WriteFile is a sequence of lines and line breaks.     *)
(***************************************************************************)
LineBreak == [br |-> TRUE]

\* strings.Join(lines, "\n").
RECURSIVE JoinLines(_)
JoinLines(lines) ==
    IF lines = <<>> THEN <<>>
    ELSE IF Len(lines) = 1 THEN <<[br |-> FALSE, line |-> Head(lines)]>>
    ELSE <<[br |-> FALSE, line |-> Head(lines)], LineBreak>> \o JoinLines(Tail(lines))

\* A label step that ends every line with a line break.
LabelStepTerminated(exists, doc, imgW, imgH, classMap) ==
    IF exists /\ imgW > 0
    THEN LET r == ConvertJsonToYolo(doc, imgW, imgH, classMap)
         IN  IF r.err = "nil"
             THEN [write |-> TRUE, lines |-> r.lines, text |-> JoinLines(r.lines) \o <<LineBreak>>]
             ELSE [write |-> FALSE]
    ELSE [write |-> FALSE]

\* "if _, err := os.Stat(task.JsonPath); err == nil && imgW > 0 { lines, err :=
\* ConvertJsonToYolo(...); if err == nil { os.WriteFile(..., strings.Join(lines,
\* "\n"), 0644) } }": whether os.WriteFile is called, and with what text.
LabelStep(exists, doc, imgW, imgH, classMap) ==
    IF exists /\ imgW > 0
    THEN LET r == ConvertJsonToYolo(doc, imgW, imgH, classMap)
         IN  IF r.err = "nil"
             THEN [write |-> TRUE, lines |-> r.lines, text |-> JoinLines(r.lines)]
             ELSE [write |-> FALSE]
    ELSE [write |-> FALSE]

\* The image sizes a worker has after its image step: 0 when the image did
\* not open or decode.
StepSizes == {<<0, 0>>, <<100, 100>>}

\* A worker is about to run its label step.
InitLabel ==
    /\ build = "main"
    /\ pc = "labelstep"
    /\ \E exists \in BOOLEAN, doc \in Documents, size \in StepSizes,
          classMap \in ClassMaps :
          conv = [at |-> "step", exists |-> exists, doc |-> doc, imgW |-> size[1],
                  imgH |-> size[2], classMap |-> classMap]
    /\ files = 0
    /\ tasks = <<>>
    /\ trainR = "0.8"
    /\ valR = "0.2"
    /\ config = "ok"
    /\ doProc = TRUE
    /\ maxKB = DefaultKB
    /\ enc = NoCall
    /\ classes = NoCall
    /\ found = NoCall
    /\ edit = NoCall
    /\ runs = <<>>
    /\ NoRun

\* The label step.
WriteLabel ==
    /\ pc = "labelstep"
    /\ conv.at = "step"
    /\ conv' = [at |-> "stepped", exists |-> conv.exists, doc |-> conv.doc,
                imgW |-> conv.imgW, imgH |-> conv.imgH, classMap |-> conv.classMap,
                file |-> LabelStep(conv.exists, conv.doc, conv.imgW, conv.imgH,
                                   conv.classMap)]
    /\ UNCHANGED <<runs, edit, enc, classes, found, maxKB, files, inp, build, pc, total, doProc,
                   limit, wg, next, wpc, wsub, img, lbl, panicking, progress, manifest,
                   dialogs, crashed, faults, config, trainR, valR, tasks, trainC,
                   valC, dirs>>

SpecLabel == InitLabel /\ [][WriteLabel]_vars

(***************************************************************************)
(* The class list of the form: clsMap (main.go 600-604) and the names of   *)
(* data.yaml (main.go 711-719).  A text is a sequence of characters.       *)
(***************************************************************************)
ClassChars == {"a", "b", " ", ","}

\* strings.Split(text, ",").
RECURSIVE Split(_)
Split(text) ==
    IF \A k \in DOMAIN text : text[k] # ","
    THEN <<text>>
    ELSE LET k == Min({j \in DOMAIN text : text[j] = ","})
         IN  <<SubSeq(text, 1, k - 1)>> \o Split(SubSeq(text, k + 1, Len(text)))

\* strings.TrimSpace(c).
RECURSIVE TrimSpace(_)
TrimSpace(c) ==
    IF c = <<>> THEN c
    ELSE IF Head(c) = " " THEN TrimSpace(Tail(c))
    ELSE IF c[Len(c)] = " " THEN TrimSpace(SubSeq(c, 1, Len(c) - 1))
    ELSE c

\* "for i, c := range clsList { clsMap[strings.TrimSpace(c)] = i }": a name
\* keeps the index of its last entry.
ClsMap(clsList) ==
    [name \in {TrimSpace(clsList[k]) : k \in DOMAIN clsList} |->
        Max({k \in DOMAIN clsList : TrimSpace(clsList[k]) = name}) - 1]

\* "for k, v := range clsMap { invMap[v] = k }".
InvMap(clsMap) ==
    [id \in {clsMap[name] : name \in DOMAIN clsMap} |->
        CHOOSE name \in DOMAIN clsMap : clsMap[name] = id]

\* "for i := 0; i < len(invMap); i++ { ... i, invMap[i] }": the name listed
\* under the id i - 1, empty when invMap has no such key.
Names(clsMap) ==
    [i \in 1 .. Cardinality(DOMAIN InvMap(clsMap)) |->
        IF (i - 1) \in DOMAIN InvMap(clsMap) THEN InvMap(clsMap)[i - 1] ELSE <<>>]

\* The form holds a class list that passes the validation (not empty).
InitClasses ==
    /\ build \in {"main", "part000"}
    /\ pc = "classes"
    /\ \E text \in UNION {[1 .. n -> ClassChars] : n \in 1 .. MaxClassText} :
          classes = [at |-> "form", text |-> text]
    /\ files = 0
    /\ tasks = <<>>
    /\ trainR = "0.8"
    /\ valR = "0.2"
    /\ config = "ok"
    /\ doProc = TRUE
    /\ maxKB = DefaultKB
    /\ enc = NoCall
    /\ conv = NoCall
    /\ found = NoCall
    /\ edit = NoCall
    /\ runs = <<>>
    /\ NoRun

\* The handler reads the class list into clsMap.
ReadClasses ==
    /\ pc = "classes"
    /\ classes.at = "form"
    /\ classes' = [at |-> "mapped", text |-> classes.text,
                   clsList |-> Split(classes.text),
                   clsMap |-> ClsMap(Split(classes.text))]
    /\ UNCHANGED <<runs, edit, enc, conv, found, maxKB, files, inp, build, pc, total, doProc,
                   limit, wg, next, wpc, wsub, img, lbl, panicking, progress, manifest,
                   dialogs, crashed, faults, config, trainR, valR, tasks, trainC,
                   valC, dirs>>

\* The run goroutine writes the names of data.yaml.
WriteNames ==
    /\ pc = "classes"
    /\ classes.at = "mapped"
    /\ classes' = [at |-> "written", text |-> classes.text,
                   clsList |-> classes.clsList, clsMap |-> classes.clsMap,
                   names |-> Names(classes.clsMap)]
    /\ UNCHANGED <<runs, edit, enc, conv, found, maxKB, files, inp, build, pc, total, doProc,
                   limit, wg, next, wpc, wsub, img, lbl, panicking, progress, manifest,
                   dialogs, crashed, faults, config, trainR, valR, tasks, trainC,
                   valC, dirs>>

SpecClasses == InitClasses /\ [][ReadClasses \/ WriteNames]_vars

(***************************************************************************)
(* The destinations of a run: the scan of the source directories           *)
(* (main.go 618-633), the shuffle and the subset of every index, and the   *)
(* paths a worker writes to (main.go 675, 685, 695, 703).  A path is kept  *)
(* as its parts.                                                           *)
(***************************************************************************)
SourceDirs == {"d1", "d2"}

\* The image file names a source directory may hold, in the order os.ReadDir
\* returns them (sorted by file name).
FileNames ==
    <<[base |-> "a", ext |-> ".jpg"], [base |-> "a", ext |-> ".png"],
      [base |-> "b", ext |-> ".jpg"]>>

\* The inner loop of the scan over one directory holding the names of present.
RECURSIVE ScanDir(_, _, _)
ScanDir(d, present, k) ==
    IF k > Len(FileNames) THEN <<>>
    ELSE (IF FileNames[k] \in present
          THEN <<[dir |-> d, base |-> FileNames[k].base, ext |-> FileNames[k].ext]>>
          ELSE <<>>) \o ScanDir(d, present, k + 1)

\* The loop over listData.
RECURSIVE ScanAll(_, _)
ScanAll(listData, disk) ==
    IF listData = <<>> THEN <<>>
    ELSE ScanDir(Head(listData), disk[Head(listData)], 1)
         \o ScanAll(Tail(listData), disk)

\* The image path a worker writes: base + ".jpg" through SmartCompress, base
\* and the extension of the source through DirectCopy.
ImageDest(task, subset, proc) ==
    [top |-> "images", subset |-> subset, base |-> task.base,
     ext |-> IF proc THEN ".jpg" ELSE task.ext]

\* The label path a worker writes.
LabelDest(task, subset) ==
    [top |-> "labels", subset |-> subset, base |-> task.base, ext |-> ".txt"]

\* The run goroutine is about to scan the source directories of listData.
InitFound ==
    /\ build = "main"
    /\ pc = "discover"
    /\ \E disk \in [SourceDirs -> SUBSET {FileNames[k] : k \in DOMAIN FileNames}],
          listData \in {<<"d1">>, <<"d1", "d2">>, <<"d2", "d1">>} :
          found = [at |-> "disk", disk |-> disk, listData |-> listData]
    /\ doProc \in BOOLEAN
    /\ files = 0
    /\ tasks = <<>>
    /\ trainR = "0.8"
    /\ valR = "0.2"
    /\ config = "ok"
    /\ maxKB = DefaultKB
    /\ enc = NoCall
    /\ conv = NoCall
    /\ classes = NoCall
    /\ edit = NoCall
    /\ runs = <<>>
    /\ NoRun

\* The scan.
Discover ==
    /\ pc = "discover"
    /\ found.at = "disk"
    /\ tasks' = ScanAll(found.listData, found.disk)
    /\ files' = Len(ScanAll(found.listData, found.disk))
    /\ found' = [at |-> "tasks", disk |-> found.disk, listData |-> found.listData]
    /\ UNCHANGED <<runs, edit, enc, conv, classes, maxKB, inp, build, pc, total, doProc, limit, wg,
                   next, wpc, wsub, img, lbl, panicking, progress, manifest, dialogs,
                   crashed, faults, config, trainR, valR, trainC, valC, dirs>>

\* Shuffle, total/trainC/valC, the subset of every index and the paths its
\* worker writes to.
Assign ==
    /\ pc = "discover"
    /\ found.at = "tasks"
    /\ Len(tasks) > 0
    /\ \E seed \in 0 .. MaxFoundSeed :
          LET shuffled == Shuffle(tasks, seed)
              tc == SubsetCount(Len(tasks), trainR)
              vc == SubsetCount(Len(tasks), valR)
          IN  /\ tasks' = shuffled
              /\ total' = Len(tasks)
              /\ trainC' = tc
              /\ valC' = vc
              /\ wsub' = [i \in 0 .. (Len(tasks) - 1) |-> SubsetOf(i, tc, vc)]
              /\ found' = [at |-> "assigned", disk |-> found.disk,
                           listData |-> found.listData,
                           image |-> [i \in 0 .. (Len(tasks) - 1) |->
                               ImageDest(shuffled[i + 1], SubsetOf(i, tc, vc), doProc)],
                           label |-> [i \in 0 .. (Len(tasks) - 1) |->
                               LabelDest(shuffled[i + 1], SubsetOf(i, tc, vc))]]
    /\ UNCHANGED <<runs, edit, enc, conv, classes, maxKB, files, inp, build, pc, doProc, limit, wg,
                   next, wpc, img, lbl, panicking, progress, manifest, dialogs, crashed,
                   faults, config, trainR, valR, dirs>>

SpecFound == InitFound /\ [][Discover \/ Assign]_vars

(***************************************************************************)
(* The label file edited from the preview window: appendLabelToFile        *)
(* (main.go 344-359) and removeLabelFromFile (main.go 361-377).  The file  *)
(* is its text, a sequence of characters; "\n" is the line break.          *)
(***************************************************************************)
FileChars == {"a", "b", " ", "\n"}

\* The texts of a label line: no line break, not blank.
LineTexts ==
    {t \in UNION {[1 .. n -> {"a", "b", " "}] : n \in 1 .. 2} :
        \E k \in DOMAIN t : t[k] # " "}

\* strings.Split(string(content), "\n").
RECURSIVE SplitLines(_)
SplitLines(text) ==
    IF \A k \in DOMAIN text : text[k] # "\n"
    THEN <<text>>
    ELSE LET k == Min({j \in DOMAIN text : text[j] = "\n"})
         IN  <<SubSeq(text, 1, k - 1)>> \o SplitLines(SubSeq(text, k + 1, Len(text)))

\* strings.Join(newLines, "\n") on texts.
RECURSIVE JoinTexts(_)
JoinTexts(lines) ==
    IF lines = <<>> THEN <<>>
    ELSE IF Len(lines) = 1 THEN Head(lines)
    ELSE Head(lines) \o <<"\n">> \o JoinTexts(Tail(lines))

\* A loop that drops every line matching the target.
RECURSIVE KeepLinesAll(_, _, _)
KeepLinesAll(lines, target, deleted) ==
    IF lines = <<>> THEN <<>>
    ELSE IF TrimSpace(Head(lines)) = TrimSpace(target)
    THEN KeepLinesAll(Tail(lines), target, TRUE)
    ELSE IF TrimSpace(Head(lines)) # <<>>
    THEN <<Head(lines)>> \o KeepLinesAll(Tail(lines), target, deleted)
    ELSE KeepLinesAll(Tail(lines), target, deleted)

\* The loop of removeLabelFromFile (main.go 366-375).
RECURSIVE KeepLines(_, _, _)
KeepLines(lines, target, deleted) ==
    IF lines = <<>> THEN <<>>
    ELSE IF ~deleted /\ TrimSpace(Head(lines)) = TrimSpace(target)
    THEN KeepLines(Tail(lines), target, TRUE)
    ELSE IF TrimSpace(Head(lines)) # <<>>
    THEN <<Head(lines)>> \o KeepLines(Tail(lines), target, deleted)
    ELSE KeepLines(Tail(lines), target, deleted)

RemoveEveryMatch(content, targetRaw) ==
    JoinTexts(KeepLinesAll(SplitLines(content), targetRaw, FALSE))

\* removeLabelFromFile(targetRaw): the text written back.
RemoveLabelFromFile(content, targetRaw) ==
    JoinTexts(KeepLines(SplitLines(content), targetRaw, FALSE))

\* appendLabelToFile: "\n" and the new line written at the end (O_APPEND).
AppendLabelToFile(content, line) == content \o <<"\n">> \o line

\* The preview window shows an image whose label file has some text.
InitEdit ==
    /\ build = "main"
    /\ pc = "preview"
    /\ \E content \in UNION {[1 .. n -> FileChars] : n \in 0 .. MaxFileText},
          line \in LineTexts :
          edit = [at |-> "file", content |-> content, line |-> line]
    /\ files = 0
    /\ tasks = <<>>
    /\ trainR = "0.8"
    /\ valR = "0.2"
    /\ config = "ok"
    /\ doProc = TRUE
    /\ maxKB = DefaultKB
    /\ enc = NoCall
    /\ conv = NoCall
    /\ classes = NoCall
    /\ found = NoCall
    /\ runs = <<>>
    /\ NoRun

\* The user confirms the deletion of a box whose line is edit.line.
RemoveLabel ==
    /\ pc = "preview"
    /\ edit.at = "file"
    /\ edit' = [at |-> "removed", before |-> edit.content, line |-> edit.line,
                content |-> RemoveLabelFromFile(edit.content, edit.line)]
    /\ UNCHANGED <<runs, enc, conv, classes, found, maxKB, files, inp, build, pc, total,
                   doProc, limit, wg, next, wpc, wsub, img, lbl, panicking, progress,
                   manifest, dialogs, crashed, faults, config, trainR, valR, tasks,
                   trainC, valC, dirs>>

\* The user draws a box; its line is edit.line.
AppendLabel ==
    /\ pc = "preview"
    /\ edit.at = "file"
    /\ edit' = [at |-> "appended", before |-> edit.content, line |-> edit.line,
                content |-> AppendLabelToFile(edit.content, edit.line)]
    /\ UNCHANGED <<runs, enc, conv, classes, found, maxKB, files, inp, build, pc, total,
                   doProc, limit, wg, next, wpc, wsub, img, lbl, panicking, progress,
                   manifest, dialogs, crashed, faults, config, trainR, valR, tasks,
                   trainC, valC, dirs>>

SpecEdit == InitEdit /\ [][RemoveLabel \/ AppendLabel]_vars

(***************************************************************************)
(* Clicks on the Run button (main.go 576-723).  Every click that passes    *)
(* the validation starts a run goroutine of its own, with its own limit    *)
(* and wg (main.go 655-656); the button stays enabled.  runs[r] is the run *)
(* of the r-th click: where its goroutine is, how many workers it has      *)
(* started, how many slots of its limit are taken and its wg counter.      *)
(***************************************************************************)
\* The form is valid and the source directories hold files image files.
InitClicks ==
    /\ build = "main"
    /\ pc = "window"
    /\ runs = <<>>
    /\ files \in 1 .. MaxClickTasks
    /\ tasks = <<>>
    /\ trainR = "0.8"
    /\ valR = "0.2"
    /\ config = "ok"
    /\ doProc = TRUE
    /\ maxKB = DefaultKB
    /\ enc = NoCall
    /\ conv = NoCall
    /\ classes = NoCall
    /\ found = NoCall
    /\ edit = NoCall
    /\ NoRun

\* The handler of a click (main.go 576-606): validation, reset of the progress
\* bar and the log, parameters, "go func()".  Nothing in it looks at a run in
\* progress.
Click ==
    /\ pc = "window"
    /\ Len(runs) < MaxClicks
    /\ ConfigOK(config)
    /\ runs' = Append(runs, [at |-> "scan", total |-> 0, next |-> 0, limit |-> 0,
                             wg |-> 0])
    /\ UNCHANGED <<edit, enc, conv, classes, found, maxKB, files, inp, build, pc, total,
                   doProc, limit, wg, next, wpc, wsub, img, lbl, panicking, progress,
                   manifest, dialogs, crashed, faults, config, trainR, valR, tasks,
                   trainC, valC, dirs>>

\* Run r from its start to its dispatch loop (main.go 614-657): scan, shuffle,
\* directories, total, and its own wg and limit.
StartRun(r) ==
    /\ pc = "window"
    /\ r \in DOMAIN runs
    /\ runs[r].at = "scan"
    /\ runs' = [runs EXCEPT ![r] = [at |-> "dispatch", total |-> files, next |-> 0,
                                    limit |-> 0, wg |-> 0]]
    /\ UNCHANGED <<edit, enc, conv, classes, found, maxKB, files, inp, build, pc, total,
                   doProc, limit, wg, next, wpc, wsub, img, lbl, panicking, progress,
                   manifest, dialogs, crashed, faults, config, trainR, valR, tasks,
                   trainC, valC, dirs>>

\* One turn of the dispatch loop of run r (main.go 658-668): a slot of the
\* limit of run r, wg.Add(1), the worker.
DispatchOf(r) ==
    /\ pc = "window"
    /\ r \in DOMAIN runs
    /\ runs[r].at = "dispatch"
    /\ GateOpen(runs[r].limit)
    /\ runs' = [runs EXCEPT ![r] =
                  [at |-> IF runs[r].next + 1 = runs[r].total THEN "wait" ELSE "dispatch",
                   total |-> runs[r].total, next |-> runs[r].next + 1,
                   limit |-> runs[r].limit + 1, wg |-> runs[r].wg + 1]]
    /\ UNCHANGED <<edit, enc, conv, classes, found, maxKB, files, inp, build, pc, total,
                   doProc, limit, wg, next, wpc, wsub, img, lbl, panicking, progress,
                   manifest, dialogs, crashed, faults, config, trainR, valR, tasks,
                   trainC, valC, dirs>>

\* A worker of run r ends (main.go 669-707): its body, then the deferred
\* "<-limit" and wg.Done().
WorkerEnds(r) ==
    /\ pc = "window"
    /\ r \in DOMAIN runs
    /\ runs[r].limit > 0
    /\ runs' = [runs EXCEPT ![r] =
                  [at |-> runs[r].at, total |-> runs[r].total, next |-> runs[r].next,
                   limit |-> runs[r].limit - 1, wg |-> runs[r].wg - 1]]
    /\ UNCHANGED <<edit, enc, conv, classes, found, maxKB, files, inp, build, pc, total,
                   doProc, limit, wg, next, wpc, wsub, img, lbl, panicking, progress,
                   manifest, dialogs, crashed, faults, config, trainR, valR, tasks,
                   trainC, valC, dirs>>

\* Run r after wg.Wait() (main.go 709-722): data.yaml, log line, dialog.
FinishRun(r) ==
    /\ pc = "window"
    /\ r \in DOMAIN runs
    /\ runs[r].at = "wait"
    /\ BarrierOpen(runs[r].wg)
    /\ runs' = [runs EXCEPT ![r] =
                  [at |-> "done", total |-> runs[r].total, next |-> runs[r].next,
                   limit |-> runs[r].limit, wg |-> runs[r].wg]]
    /\ UNCHANGED <<edit, enc, conv, classes, found, maxKB, files, inp, build, pc, total,
                   doProc, limit, wg, next, wpc, wsub, img, lbl, panicking, progress,
                   manifest, dialogs, crashed, faults, config, trainR, valR, tasks,
                   trainC, valC, dirs>>

NextClicks ==
    \/ Click
    \/ \E r \in 1 .. MaxClicks :
          StartRun(r) \/ DispatchOf(r) \/ WorkerEnds(r) \/ FinishRun(r)

SpecClicks == InitClicks /\ [][NextClicks]_vars

(***************************************************************************)
(* Properties of the run.                                                  *)
(***************************************************************************)
\* The tasks in flight: slot taken by the dispatcher, not yet given back.
InFlight == Cardinality({i \in Idx : wpc[i] \in {"work", "setvalue", "release"}})

AllFinished == total >= 1 /\ \A i \in Idx : wpc[i] = "finished"

\* The body of worker i has ended (normally, with an error or with a panic).
BodyEnded(i) == wpc[i] \in {"release", "wgdone", "finished", "fatal"}

\* Worker i is inside progressBar.SetValue.
InSetValue(i) == wpc[i] = "setvalue"

Faulted(i) == inp[i] \cap {"imgFault", "lblFault"} # {}

\* Task i has no failure of its own: its image decodes and encodes, its
\* annotation is well formed or absent, its destinations can be written.
PlainTask(i) ==
    /\ inp[i] \subseteq {"noJson"}
    /\ wsub[i] \in dirs.images
    /\ wsub[i] \in dirs.labels

\* C1: within one run the number of tasks in flight (slot acquired by the
\* dispatcher, not yet released by the worker) never exceeds 4.
C1_GateBound == InFlight <= 4

\* C1 witness: four tasks are in flight and the dispatcher waits at the gate
\* with a fifth task.
C1_GateFull == pc = "dispatch" /\ next < total /\ InFlight = 4 /\ limit = Capacity

\* C2: per-task failures are isolated.  A failure that is not a runtime fault
\* never ends the process; every task that has no failure of its own has, once
\* its body has ended, its image written and (when an annotation exists) its
\* label written, whatever happened to the other tasks; and completion is
\* reported only with every task run to its end.
C2_FailuresIsolated ==
    /\ (\A i \in Idx : ~Faulted(i)) => ~crashed
    /\ \A i \in Idx :
         (BodyEnded(i) /\ PlainTask(i))
            => /\ ImageWritten(i)
               /\ ("noJson" \notin inp[i] => LabelWritten(i))
    /\ (pc = "done" /\ \A i \in Idx : ~Faulted(i)) => \A i \in Idx : wpc[i] = "finished"

\* C2 witness: the run has reported completion with one task whose image did
\* not decode and two other tasks with image and label written.
C2_FailedTaskAmongGood ==
    /\ pc = "done"
    /\ \E i, j, k \in Idx :
         /\ j # k
         /\ "corrupt" \in inp[i]
         /\ ~ImageWritten(i) /\ ~LabelWritten(i)
         /\ inp[j] = {} /\ ImageWritten(j) /\ LabelWritten(j)
         /\ inp[k] = {} /\ ImageWritten(k) /\ LabelWritten(k)

\* C3: a panic raised in one task's worker is caught at the task boundary: it
\* never ends the process, and completion is still reported with every task
\* run to its end.
C3_PanicContained ==
    /\ ~crashed
    /\ \A i \in Idx : wpc[i] # "fatal"

\* C4: completion barrier.  data.yaml is written at most once, and exactly
\* once by the time completion is reported; the manifest write and the
\* completion report happen only when every worker has finished, with no task
\* in flight.
C4_Barrier ==
    /\ manifest <= 1
    /\ (manifest >= 1 \/ pc \in {"manifest", "report", "done"})
          => (AllFinished /\ InFlight = 0 /\ wg = 0)
    /\ (dialogs = "info:done" \/ pc = "done") => manifest = 1

\* C4 witness: completion reported after a run with the largest number of tasks.
C4_Completed == pc = "done" /\ manifest = 1 /\ total = MaxTasks /\ AllFinished

\* C5: liveness.  Once the dispatch loop has started with N >= 1 tasks, the
\* run eventually reports completion with every task started and finished.
C5_Completes == (pc = "dispatch") ~> (pc = "done" /\ AllFinished)

\* C5 witness: completion is reported after a run in which the dispatcher had
\* to wait at the gate (more tasks than slots) and one worker panicked.
C5_CompletedAfterFault ==
    /\ pc = "done"
    /\ total > Capacity
    /\ \E i \in Idx : Faulted(i)

\* C6: the progress values reported during one run never decrease, and each
\* lies in [0,1].
C6_ProgressMonotone ==
    [][progress' >= progress /\ progress' >= 0 /\ progress' <= total']_vars

\* C7: the progress value in effect is (number of tasks whose body has ended,
\* failed ones included) / N, and so it is N/N when completion is reported.
C7_ProgressIsCount ==
    /\ progress = Cardinality({i \in Idx : BodyEnded(i)})
    /\ pc = "done" => progress = total

\* The run goroutine has ended, or the handler returned without starting it.
RunEnded == pc \in {"rejected", "nopics", "aborted", "done"}

\* A worker goroutine has been started.
WorkerStarted == \E i \in DOMAIN wpc : wpc[i] # "unborn"

\* The MkdirAll loop is over and one of the six directories was not created.
MkdirFailed ==
    /\ pc \in {"aborted", "prepare", "dispatch", "wait", "manifest", "report", "done"}
    /\ (dirs.images # Subsets \/ dirs.labels # Subsets)

\* C13: when one of the six output directories cannot be created, the run is
\* aborted with an error shown to the user: no worker is started, data.yaml is
\* not written and no completion is reported.
C13_MkdirFailureAborts ==
    MkdirFailed
        => /\ pc = "aborted"
           /\ dialogs = "error:panic"
           /\ ~WorkerStarted
           /\ manifest = 0

\* C14: a configuration error ends the run with an error before any work:
\* nothing is scanned, no directory is created, no worker is started and no
\* file is written.
C14_ConfigErrorNoWork ==
    (config # "ok" /\ pc # "idle")
        => /\ pc = "rejected"
           /\ dialogs = "error:config"
           /\ tasks = <<>>
           /\ dirs = [images |-> {}, labels |-> {}]
           /\ ~WorkerStarted
           /\ manifest = 0
           /\ progress = 0

\* C14 witness: the handler has returned on a form without class list.
C14_RejectedNoClasses == pc = "rejected" /\ config = "nocls" /\ files > 0

\* C15: a task whose source image does not open or decode writes no image
\* file and no label file and never calls the annotation conversion, with
\* processing on and with processing off.
C15_DecodeFailureNoOutput ==
    \A i \in Idx :
        (BodyEnded(i) /\ "corrupt" \in inp[i])
            => /\ ~ImageWritten(i)
               /\ ~LabelWritten(i)
               /\ lbl[i] \in {"none", "nojson", "skipped"}

\* C15 witness: with processing off, a task with an annotation file and an
\* image that does not decode has ended with the label step skipped, and the
\* run has completed.
C15_CorruptSkipped ==
    /\ pc = "done"
    /\ ~doProc
    /\ \E i \in Idx : inp[i] = {"corrupt"} /\ img[i] = "decodeErr" /\ lbl[i] = "skipped"

\* C16: a task whose image step succeeds and whose annotation file does not
\* parse keeps its image output and writes no label file, and the process
\* goes on.
C16_ParseErrorKeepsImage ==
    /\ \A i \in Idx :
          (BodyEnded(i) /\ inp[i] = {"badJson"} /\ wsub[i] \in dirs.images)
              => /\ ImageWritten(i)
                 /\ lbl[i] = "parseErr"
                 /\ ~LabelWritten(i)
    /\ (\A i \in Idx : inp[i] \subseteq {"badJson"}) => ~crashed

\* C16 witness: the run has completed with a task whose annotation did not
\* parse and another task with image and label written.
C16_ParseErrorAmongGood ==
    /\ pc = "done"
    /\ \E i, j \in Idx :
         /\ inp[i] = {"badJson"} /\ ImageWritten(i) /\ lbl[i] = "parseErr"
         /\ inp[j] = {} /\ ImageWritten(j) /\ LabelWritten(j)

\* C19: state written by more than one worker is under mutual exclusion: no
\* two workers are inside the update of the progress value at the same time.
\* (The log is appended to by the run goroutine alone, under logLock.)
C19_ProgressExclusive ==
    \A i, j \in Idx : (InSetValue(i) /\ InSetValue(j)) => i = j

\* C20: a run that passes validation and finds no image file is no error: it
\* ends the way a run with tasks ends, with data.yaml written and completion
\* reported.
C20_ZeroTasksCompletes ==
    (RunEnded /\ config = "ok" /\ files = 0)
        => /\ pc = "done"
           /\ manifest = 1
           /\ dialogs = "info:done"

(***************************************************************************)
(* Properties of the partition.                                            *)
(***************************************************************************)
\* The number of indexes the partition gives to subset s.
PartCount(s) == Cardinality({i \in 0 .. (total - 1) : wsub[i] = s})

\* floor(n * r) for the decimal ratio the text denotes.
FloorShare(n, text) == (n * Tenths(text)) \div 10

\* C8: partition conservation.  For ratios with r_train + r_val <= 1 (taken
\* here with both ratios non-negative), exactly floor(N*r_train) tasks go to
\* train, floor(N*r_val) to val and the other N minus those two to test, and
\* every task the scan found is at exactly one index, so in exactly one subset.
C8_PartitionFloor ==
    (/\ pc = "partitioned"
     /\ Tenths(trainR) >= 0
     /\ Tenths(valR) >= 0
     /\ Tenths(trainR) + Tenths(valR) <= 10)
        => /\ PartCount("train") = FloorShare(total, trainR)
           /\ PartCount("val") = FloorShare(total, valR)
           /\ PartCount("test") = total - FloorShare(total, trainR) - FloorShare(total, valR)
           /\ total = files
           /\ \A f \in 1 .. files : Cardinality({k \in 1 .. Len(tasks) : tasks[k] = f}) = 1

\* trunc(n * r), toward zero, for the decimal ratio the text denotes.
TruncShare(n, text) ==
    IF n * Tenths(text) < 0
    THEN 0 - ((0 - n * Tenths(text)) \div 10)
    ELSE (n * Tenths(text)) \div 10

\* The ratios are not ones a validation would let through: their sum is above
\* 1, or one of them is above 1, zero or negative.
Unvalidated ==
    \/ Tenths(trainR) + Tenths(valR) > 10
    \/ Tenths(trainR) > 10 \/ Tenths(valR) > 10
    \/ Tenths(trainR) <= 0 \/ Tenths(valR) <= 0

\* C22: with such ratios every task is still in exactly one of train, val and
\* test, the three counts are not negative and sum to N, train gets
\* min(N, max(0, trainC)) tasks with trainC = trunc(N * r_train), and test gets
\* what train and val leave.
C22_UnvalidatedRatios ==
    (pc = "partitioned" /\ Unvalidated)
        => /\ total = files
           /\ \A i \in 0 .. (total - 1) : wsub[i] \in {"train", "val", "test"}
           /\ \A f \in 1 .. files : Cardinality({k \in 1 .. Len(tasks) : tasks[k] = f}) = 1
           /\ PartCount("train") + PartCount("val") + PartCount("test") = total
           /\ PartCount("train") = Min({total, Max({0, TruncShare(total, trainR)})})
           /\ PartCount("test") = total - PartCount("train") - PartCount("val")

(***************************************************************************)
(* Properties of SmartCompress.                                            *)
(***************************************************************************)
\* The call has returned for an image jpeg.Encode accepts and a path that can
\* be written.
Returned == enc.at = "ret"

Writable == enc.image.encodable /\ enc.fsOK

\* C9 as claimed: when maxKB*1024 is at least the size at quality 20, the file
\* written has at most maxKB*1024 bytes; when the budget is below every
\* achievable size, the quality-20 encoding is written, and it is not empty.
C9_ByteBudget ==
    (Returned /\ Writable)
        => /\ (enc.kb * BytesPerKB >= enc.image.size[MinQuality])
                => (~enc.res.err /\ enc.res.len <= enc.kb * BytesPerKB)
           /\ (\A q \in Qualities : enc.kb * BytesPerKB < enc.image.size[q])
                => (~enc.res.err /\ enc.res.len = enc.image.size[MinQuality]
                    /\ enc.res.len > 0)

\* C9 amended: the budget is met in whole kilobytes.  When the size at quality
\* 20, in whole KB (bytes/1024 rounded down), is at most maxKB, the file written
\* has at most maxKB whole KB, that is at most maxKB*1024 + 1023 bytes; when
\* the size in whole KB is above maxKB at every quality, the quality-20
\* encoding is written, and it is not empty.
C9_WholeKBBudget ==
    (Returned /\ Writable)
        => /\ (enc.image.size[MinQuality] \div BytesPerKB <= enc.kb)
                => (/\ ~enc.res.err
                    /\ enc.res.len \div BytesPerKB <= enc.kb
                    /\ enc.res.len <= enc.kb * BytesPerKB + (BytesPerKB - 1)
                    /\ enc.res.len = enc.image.size[enc.res.quality])
           /\ (\A q \in Qualities : enc.image.size[q] \div BytesPerKB > enc.kb)
                => (/\ ~enc.res.err
                    /\ enc.res.quality = MinQuality
                    /\ enc.res.len = enc.image.size[MinQuality]
                    /\ enc.res.len > 0)

\* C9 witness: a file of more than maxKB*1024 bytes was written at a quality
\* above 20 because it has no more than maxKB whole kilobytes.
C9_OverBytesAccepted ==
    /\ Returned
    /\ ~enc.res.err
    /\ enc.kb >= 1
    /\ enc.res.quality > MinQuality
    /\ enc.res.len > enc.kb * BytesPerKB
    /\ enc.res.len \div BytesPerKB = enc.kb

C17_ManifestMatchesClassMap ==
    (pc = "classes" /\ classes.at = "written") =>
        /\ \A k \in DOMAIN classes.clsList :
              classes.clsMap[TrimSpace(classes.clsList[k])] = k - 1
        /\ Len(classes.names) = Len(classes.clsList)
        /\ \A k \in DOMAIN classes.clsList :
              classes.names[k] = TrimSpace(classes.clsList[k])
        /\ \A name \in DOMAIN classes.clsMap :
              /\ classes.clsMap[name] + 1 \in DOMAIN classes.names
              /\ classes.names[classes.clsMap[name] + 1] = name

(***************************************************************************)
(* Properties of the destinations.                                         *)
(***************************************************************************)
\* C18: no two tasks of a run are given the same destination: the image paths
\* of distinct tasks differ and so do their label paths.
C18_DestinationsDistinct ==
    (pc = "discover" /\ found.at = "assigned") =>
        \A i, j \in Idx :
            i # j => /\ found.image[i] # found.image[j]
                     /\ found.label[i] # found.label[j]

(***************************************************************************)
(* Properties of ConvertJsonToYolo.                                        *)
(***************************************************************************)
Converted == pc = "converter" /\ conv.at = "ret"

WellFormed == conv.doc.file = "ok"

\* The shapes and the labels of the document whose label is a key of the
\* class map (and, for a shape, that have a point).
KeptShapes ==
    {k \in DOMAIN conv.doc.shapes :
        /\ conv.doc.shapes[k].label \in DOMAIN conv.classMap
        /\ Len(conv.doc.shapes[k].points) > 0}

KeptLabels ==
    {k \in DOMAIN conv.doc.labels : conv.doc.labels[k].name \in DOMAIN conv.classMap}

\* C11: a shape whose label is not a key of the class map contributes no
\* line (the lines are as many as the shapes and labels with a mapped label,
\* and each carries an id of the class map), and a well-formed document with
\* no mapped label yields no line and no error.
C11_ClassFiltering ==
    (Converted /\ WellFormed) =>
        /\ conv.res.err = "nil"
        /\ Len(conv.res.lines) = Cardinality(KeptShapes) + Cardinality(KeptLabels)
        /\ \A k \in DOMAIN conv.res.lines :
              \E c \in DOMAIN conv.classMap :
                  conv.classMap[c] = conv.res.lines[k].cls
        /\ ((\A k \in DOMAIN conv.doc.shapes :
                conv.doc.shapes[k].label \notin DOMAIN conv.classMap)
            /\ (\A k \in DOMAIN conv.doc.labels :
                conv.doc.labels[k].name \notin DOMAIN conv.classMap)
            => conv.res.lines = <<>>)

C11_UnmappedDropped ==
    /\ Converted
    /\ WellFormed
    /\ Len(conv.doc.shapes) = 2
    /\ conv.doc.shapes[1].label = "dog"
    /\ Len(conv.doc.shapes[1].points) > 0
    /\ conv.doc.shapes[2].label = "cat"
    /\ Len(conv.doc.labels) = 1
    /\ conv.doc.labels[1].name = "dog"
    /\ DOMAIN conv.classMap = {"cat"}
    /\ Len(conv.res.lines) = 1
    /\ conv.res.err = "nil"

\* The call has returned the line of the one label of the document.
LabelConverted ==
    /\ Converted
    /\ WellFormed
    /\ KeptLabels = {1}
    /\ Len(conv.res.lines) >= 1

LabelLine == conv.res.lines[Len(conv.res.lines)]

\* The distance, in 1/(2 * 10^6) of a pixel, between the pixel coordinate x
\* and size * k / (2 * 10^6), where k is 2*cx - w or 2*cx + w of the line in
\* millionths; any distance of 10^7 or more is given as 10^7.
PixelError(size, k, x) ==
    LET hi == size * (k \div 1000) - 2 * Pow10(Decimals - 3) * x
        lo == size * (k % 1000)
    IN  IF Abs(hi) > 10000 THEN Pow10(7) ELSE Abs(1000 * hi + lo)

\* The largest of the four distances between the rectangle of the label and
\* (cx*W - w*W/2, cy*H - h*H/2, cx*W + w*W/2, cy*H + h*H/2) of its line,
\* along x and along y.
RoundTripErrorX ==
    Max({PixelError(conv.imgW, 2 * LabelLine.cx - LabelLine.w, conv.doc.labels[1].x1),
         PixelError(conv.imgW, 2 * LabelLine.cx + LabelLine.w, conv.doc.labels[1].x2)})

RoundTripErrorY ==
    Max({PixelError(conv.imgH, 2 * LabelLine.cy - LabelLine.h, conv.doc.labels[1].y1),
         PixelError(conv.imgH, 2 * LabelLine.cy + LabelLine.h, conv.doc.labels[1].y2)})

\* C12: the numbers of the emitted line, mapped back, reproduce the rectangle
\* with an error of at most 1e-4 pixel in every coordinate.
C12_RoundTrip ==
    LabelConverted =>
        /\ RoundTripErrorX <= 2 * Pow10(Decimals - 4)
        /\ RoundTripErrorY <= 2 * Pow10(Decimals - 4)

\* C12, as the code has it: the error is at most W * 1e-6 pixel in x1 and x2
\* and at most H * 1e-6 pixel in y1 and y2.
C12_RoundTripScaled ==
    LabelConverted =>
        /\ RoundTripErrorX <= 2 * conv.imgW
        /\ RoundTripErrorY <= 2 * conv.imgH

\* A rectangle of a large image comes back more than 1e-4 pixel away.
C12_LargeImageOff ==
    /\ LabelConverted
    /\ conv.imgW = 3000
    /\ conv.doc.labels[1].x1 = 0
    /\ conv.doc.labels[1].x2 = 1
    /\ RoundTripErrorX > 2 * Pow10(Decimals - 4)
    /\ RoundTripErrorX <= 2 * conv.imgW

(***************************************************************************)
(* Properties of the quality search of SmartCompress.                      *)
(***************************************************************************)
\* The qualities at which the encoding meets the budget in whole kilobytes.
FittingQualities == {q \in Qualities : enc.image.size[q] \div BytesPerKB <= enc.kb}

\* The number of jpeg.Encode calls made when the search stops at quality q.
CallsDownTo(q) == ((StartQuality - q) \div QualityStep) + 1

\* C21: the encoding written is the one at the highest quality of 95, 90, ...,
\* 20 whose size in whole kilobytes is within maxKB, reached by trying the
\* qualities in descending order and stopping at the first that fits; when
\* none fits the quality-20 encoding is written; no encoding is made below
\* quality 20 and at most 17 encodings are made.
C21_QualitySearch ==
    Returned =>
        /\ enc.res.quality \in Qualities
        /\ enc.res.calls <= CallsDownTo(MinQuality) + 1
        /\ (Writable /\ FittingQualities # {}) =>
              /\ ~enc.res.err
              /\ enc.res.quality = Max(FittingQualities)
              /\ enc.res.len = enc.image.size[Max(FittingQualities)]
              /\ enc.res.calls = CallsDownTo(Max(FittingQualities))
        /\ (Writable /\ FittingQualities = {}) =>
              /\ ~enc.res.err
              /\ enc.res.quality = MinQuality
              /\ enc.res.len = enc.image.size[MinQuality]
              /\ enc.res.calls = CallsDownTo(MinQuality) + 1

\* A quality below 95 and above 20 is the highest that fits although the
\* encoding at a still lower quality does not fit.
C21_StopsAtHighestFit ==
    /\ Returned
    /\ Writable
    /\ ~enc.res.err
    /\ enc.res.quality > MinQuality
    /\ enc.res.quality < StartQuality
    /\ enc.res.calls = CallsDownTo(enc.res.quality)
    /\ \E q \in Qualities : q < enc.res.quality /\ q \notin FittingQualities

(***************************************************************************)
(* Properties of the lines of ConvertJsonToYolo.                           *)
(***************************************************************************)
\* The line of the shape at position k of the document, a shape that is kept:
\* the lines of the shapes come first, in the order of the shapes.
ShapeLine(k) == conv.res.lines[Cardinality({j \in KeptShapes : j <= k})]

\* The x (c = 1) or y (c = 2) of the points of shape k that have two numbers.
Coords(k, c) ==
    {conv.doc.shapes[k].points[p][c] :
        p \in {q \in DOMAIN conv.doc.shapes[k].points :
                  Len(conv.doc.shapes[k].points[q]) >= 2}}

\* C23: every polygon shape with a mapped label and at least one point gets
\* exactly one line, and the box of that line goes from the least to the
\* greatest x and y of the points that have two numbers; a point with fewer
\* numbers is passed over and is no error; a polygon without points gets no
\* line.
C23_PolygonBox ==
    (Converted /\ WellFormed) =>
        /\ conv.res.err = "nil"
        /\ Len(conv.res.lines) = Cardinality(KeptShapes) + Cardinality(KeptLabels)
        /\ \A k \in KeptShapes :
              /\ ShapeLine(k).cls = conv.classMap[conv.doc.shapes[k].label]
              /\ Coords(k, 1) # {} =>
                    /\ ~ShapeLine(k).inf
                    /\ ShapeLine(k).cx
                         = FormatFixed(Min(Coords(k, 1)) + Max(Coords(k, 1)),
                                       2 * conv.imgW)
                    /\ ShapeLine(k).cy
                         = FormatFixed(Min(Coords(k, 2)) + Max(Coords(k, 2)),
                                       2 * conv.imgH)
                    /\ ShapeLine(k).w
                         = FormatFixed(Max(Coords(k, 1)) - Min(Coords(k, 1)),
                                       conv.imgW)
                    /\ ShapeLine(k).h
                         = FormatFixed(Max(Coords(k, 2)) - Min(Coords(k, 2)),
                                       conv.imgH)
        /\ \A k \in DOMAIN conv.doc.shapes :
              conv.doc.shapes[k].points = <<>> => k \notin KeptShapes

\* A polygon of three points, one of them of a single number, has its line,
\* next to a polygon without points that has none.
C23_PolygonWithShortPoint ==
    /\ Converted
    /\ WellFormed
    /\ Len(conv.doc.shapes) = 2
    /\ conv.doc.shapes[1].points = <<>>
    /\ conv.doc.shapes[1].label \in DOMAIN conv.classMap
    /\ Len(conv.doc.shapes[2].points) = 3
    /\ KeptShapes = {2}
    /\ conv.doc.labels = <<>>
    /\ Len(conv.res.lines) = 1
    /\ ~conv.res.lines[1].inf
    /\ conv.res.lines[1].w > 0
    /\ conv.res.lines[1].h > 0

\* The rectangle of the one label of the document.
Rect == conv.doc.labels[1]

\* C24: a rectangle with a mapped label gets exactly one line, with
\* cx = (x1 + (x2-x1)/2)/W, cy = (y1 + (y2-y1)/2)/H, w = (x2-x1)/W and
\* h = (y2-y1)/H as printed; nothing is validated or clamped: an inverted
\* rectangle has a negative w or h, a box outside the image is passed on, and
\* there is no error.
C24_RectanglePassThrough ==
    (Converted /\ WellFormed) =>
        /\ conv.res.err = "nil"
        /\ Len(conv.res.lines) = Cardinality(KeptShapes) + Cardinality(KeptLabels)
        /\ KeptLabels = {1} =>
              /\ LabelLine.cls = conv.classMap[Rect.name]
              /\ ~LabelLine.inf
              /\ LabelLine.cx = FormatFixed(2 * Rect.x1 + (Rect.x2 - Rect.x1), 2 * conv.imgW)
              /\ LabelLine.cy = FormatFixed(2 * Rect.y1 + (Rect.y2 - Rect.y1), 2 * conv.imgH)
              /\ LabelLine.w = FormatFixed(Rect.x2 - Rect.x1, conv.imgW)
              /\ LabelLine.h = FormatFixed(Rect.y2 - Rect.y1, conv.imgH)
              /\ Rect.x2 < Rect.x1 => LabelLine.w < 0
              /\ Rect.y2 < Rect.y1 => LabelLine.h < 0
              /\ Rect.x1 + Rect.x2 > 2 * conv.imgW => LabelLine.cx > Pow10(Decimals)
              /\ Rect.y1 + Rect.y2 > 2 * conv.imgH => LabelLine.cy > Pow10(Decimals)

\* An inverted rectangle that lies outside the image has its line, with a
\* negative width and a centre beyond the right edge.
C24_InvertedOutside ==
    /\ Converted
    /\ WellFormed
    /\ KeptLabels = {1}
    /\ conv.imgW = 1
    /\ Rect.x1 = 2
    /\ Rect.x2 = 1
    /\ conv.res.err = "nil"
    /\ LabelLine.w = 0 - Pow10(Decimals)
    /\ LabelLine.cx > Pow10(Decimals)

\* C29: every line of a polygon shape with at least one point has a width
\* and a height that are not negative, also when none of its points has two
\* numbers (a line whose numbers are -Inf has a negative width and height).
C29_PolygonBoxNotNegative ==
    (Converted /\ WellFormed) =>
        \A k \in KeptShapes :
            /\ ~ShapeLine(k).inf
            /\ ShapeLine(k).w >= 0
            /\ ShapeLine(k).h >= 0

(***************************************************************************)
(* Properties of the label step.                                           *)
(***************************************************************************)
Stepped == pc = "labelstep" /\ conv.at = "stepped"

\* C25: the label file of a task is written if and only if the image
\* dimensions were obtained (width > 0), the annotation file exists and it
\* parses; its text is the lines joined by single line breaks with none at
\* the end, and with no line at all an empty file is still written.
C25_LabelFile ==
    Stepped =>
        /\ conv.file.write <=> (conv.imgW > 0 /\ conv.exists /\ conv.doc.file = "ok")
        /\ conv.file.write =>
              /\ conv.file.lines = <<>> => conv.file.text = <<>>
              /\ conv.file.lines # <<>> =>
                    /\ Len(conv.file.text) = 2 * Len(conv.file.lines) - 1
                    /\ \A k \in DOMAIN conv.file.lines :
                          /\ ~conv.file.text[2 * k - 1].br
                          /\ conv.file.text[2 * k - 1].line = conv.file.lines[k]
                    /\ \A k \in 1 .. (Len(conv.file.lines) - 1) : conv.file.text[2 * k].br

\* An annotation with shapes none of which has a mapped label: an empty label
\* file is written.
C25_EmptyFileWritten ==
    /\ Stepped
    /\ conv.exists
    /\ conv.imgW > 0
    /\ conv.doc.file = "ok"
    /\ Len(conv.doc.shapes) = 2
    /\ conv.file.write
    /\ conv.file.text = <<>>

(***************************************************************************)
(* Properties of the admission slot of a task.                             *)
(***************************************************************************)
\* Worker i is in its pipeline, or past it with "<-limit" still to run.
HoldsSlot(i) == wpc[i] \in {"work", "setvalue", "release"}

\* Worker i has not yet run wg.Done().
Counted(i) == wpc[i] \in {"work", "setvalue", "release", "wgdone"}

\* C26: a task holds its slot for its whole pipeline.  The slots taken are
\* exactly those of the tasks that are in their pipeline or have just left
\* it (normally, with an error or with a recovered panic) and have not yet
\* given the slot back: no slot is given back in the middle of a pipeline,
\* none twice; and a task is counted as finished by the barrier only after
\* it has given its slot back.
C26_SlotHeldToEnd ==
    /\ limit = Cardinality({i \in Idx : HoldsSlot(i)})
    /\ wg = Cardinality({i \in Idx : Counted(i)})
    /\ \A i \in Idx : wpc[i] \in {"finished", "fatal"} => ~HoldsSlot(i)
    /\ wg >= limit

\* A task whose worker panicked has given its slot back and is finished while
\* another task, in the middle of its pipeline, holds the only taken slot.
C26_ReleasedAfterPanic ==
    \E i, j \in Idx :
        /\ inp[i] \cap {"imgFault", "lblFault"} # {}
        /\ wpc[i] = "finished"
        /\ wpc[j] = "setvalue"
        /\ limit = 1
        /\ wg = 1

(***************************************************************************)
(* Properties of the edits of a label file.                                *)
(***************************************************************************)
NonBlank(l) == TrimSpace(l) # <<>>

\* The lines of a text that are not blank, in their order.
NonBlankLines(text) == SelectSeq(SplitLines(text), NonBlank)

\* The positions of the lines of the file that match the line to remove.
Matches ==
    {k \in DOMAIN SplitLines(edit.before) :
        TrimSpace(SplitLines(edit.before)[k]) = TrimSpace(edit.line)}

\* The lines without the one at position k.
WithoutLine(lines, k) == SubSeq(lines, 1, k - 1) \o SubSeq(lines, k + 1, Len(lines))

\* C27: removing deletes exactly one line, the first that matches the target,
\* and keeps every other non-blank line in its order; with no matching line
\* no non-blank line is removed.  Appending adds exactly one line after the
\* text there was and changes no line of it.
C27_LabelFileEdits ==
    /\ (pc = "preview" /\ edit.at = "removed") =>
          /\ Matches # {} =>
                NonBlankLines(edit.content)
                  = SelectSeq(WithoutLine(SplitLines(edit.before), Min(Matches)), NonBlank)
          /\ Matches # {} =>
                Len(NonBlankLines(edit.content)) = Len(NonBlankLines(edit.before)) - 1
          /\ Matches = {} => NonBlankLines(edit.content) = NonBlankLines(edit.before)
    /\ (pc = "preview" /\ edit.at = "appended") =>
          SplitLines(edit.content) = Append(SplitLines(edit.before), edit.line)

\* Of two lines that match the target the first is removed and the second is
\* kept.
C27_FirstOfTwoRemoved ==
    /\ pc = "preview"
    /\ edit.at = "removed"
    /\ Cardinality(Matches) = 2
    /\ Len(NonBlankLines(edit.before)) = 3
    /\ Len(NonBlankLines(edit.content)) = 2
    /\ \E k \in DOMAIN NonBlankLines(edit.content) :
          TrimSpace(NonBlankLines(edit.content)[k]) = TrimSpace(edit.line)

(***************************************************************************)
(* Properties of the files a run leaves.                                   *)
(***************************************************************************)
\* C28: every label file a run wrote has its image, written by the same task
\* into the same subset: no task writes a label without its image.
C28_LabelHasImage ==
    \A i \in Idx : (BodyEnded(i) /\ LabelWritten(i)) => ImageWritten(i)

(***************************************************************************)
(* Properties of the clicks on Run.                                        *)
(***************************************************************************)
\* The runs in progress, and the tasks in flight over all runs.
RunsInProgress == {r \in DOMAIN runs : runs[r].at # "done"}

RECURSIVE TasksInFlight(_)
TasksInFlight(r) == IF r = 0 THEN 0 ELSE runs[r].limit + TasksInFlight(r - 1)

\* C30: runs do not overlap.  A click on Run while an earlier run is in
\* progress starts no second set of workers: at most one run is in progress
\* (so no two runs write into the output root at once) and at most 4 tasks
\* are in flight in the whole program.
C30_RunsDoNotOverlap ==
    pc = "window" =>
        /\ Cardinality(RunsInProgress) <= 1
        /\ TasksInFlight(Len(runs)) <= Capacity

====
